---- MODULE Spec2Model ----
(***************************************************************************)
(* A model of jlog's ingestion / filtering / aggregation core.             *)
(*                                                                         *)
(* Strings are sequences of one-character strings, so that lower-casing,   *)
(* substring search, integer parsing and the normalizer's substitutions    *)
(* are computed character by character as the Rust code computes them.     *)
(* An Option<T> is a sequence of length 0 (None) or 1 (Some(v)).           *)
(* A HashMap is a function whose DOMAIN is the key set; its iteration      *)
(* order is unspecified and is modelled as a free choice of order.         *)
(***************************************************************************)
EXTENDS Integers, Sequences, FiniteSets, TLC

VARIABLES
    \* AnalysisState (src/analyzer/state.rs)
    total_entries, entries_by_priority, entries_by_service,
    error_messages, time_series, message_trends,
    \* the latest call on the AnalysisState and the value it returned
    call, ret,
    \* history, not program state: per normalized message, how many of the
    \* entries counted in error_messages carried no derivable timestamp
    untimed,
    \* FilterCriteria of the command-line path (src/analyzer/filter.rs)
    cli_filter, cli_err,
    \* JlogApp.filter and JlogApp.filter_bar (src/app.rs, src/ui/filter_bar.rs)
    filter, filter_bar,
    \* the latest FilterCriteria::matches call of the command-line path:
    \* the entry handed in and the verdict
    checked,
    \* JlogApp.log_store.entries, JlogApp.filtered_indices, and the value the
    \* latest FilterBar::show returned
    log_store, filtered_indices, changed,
    \* history: the entries a finished run was fed, for the specifications
    \* that start from the AnalysisState after a whole run
    batch,
    \* the file save_now wrote last; the lines of the source being read; the
    \* locals of the reader (src/workers, or analyze); the channel to the
    \* viewer; and (history) the entries the current reader has sent
    saved, lines, reader, chan, sent,
    \* JlogApp's flags and status line, and whether it holds a receiver of
    \* the message channel and a sender of the command channel (src/app.rs)
    is_loading, is_connected, status_message, total_lines,
    bg_receiver, bg_cmd_sender,
    \* the reader threads whose channel JlogApp has dropped; and (history)
    \* the types of the messages the current reader has put on the channel
    orphans, put

aggVars == << total_entries, entries_by_priority, entries_by_service,
              error_messages, time_series, message_trends >>
callVars == << call, ret, untimed >>
cliVars == << cli_filter, cli_err, checked >>
guiVars == << filter, filter_bar, log_store, filtered_indices, changed >>
appVars == << is_loading, is_connected, status_message, total_lines,
              bg_receiver, bg_cmd_sender >>
threadVars == << orphans, put >>
ioVars == << batch, saved, lines, reader, chan, sent, appVars, threadVars >>
vars == << total_entries, entries_by_priority, entries_by_service,
           error_messages, time_series, message_trends, call, ret, untimed,
           cli_filter, cli_err, checked,
           filter, filter_bar, log_store, filtered_indices, changed,
           batch, saved, lines, reader, chan, sent,
           is_loading, is_connected, status_message, total_lines,
           bg_receiver, bg_cmd_sender, orphans, put >>

----------------------------------------------------------------------------
(* Bounds of the model *)

\* process_entry calls per run
MaxEntries == 2
\* largest n handed to top_errors / top_services / top_message_trends
MaxTopN == 2

----------------------------------------------------------------------------
(* Option and string helpers *)

None == << >>
Some(v) == << v >>
IsSome(o) == o # << >>

Digits == {"0", "1", "2", "3", "4", "5", "6", "7", "8", "9"}

IsDigit(c) == c \in Digits

DigitVal(c) ==
    CASE c = "0" -> 0 [] c = "1" -> 1 [] c = "2" -> 2 [] c = "3" -> 3
      [] c = "4" -> 4 [] c = "5" -> 5 [] c = "6" -> 6 [] c = "7" -> 7
      [] c = "8" -> 8 [] c = "9" -> 9

RECURSIVE DigitsValue(_)
DigitsValue(s) ==
    IF s = << >> THEN 0
    ELSE 10 * DigitsValue(SubSeq(s, 1, Len(s) - 1)) + DigitVal(s[Len(s)])

AllDigits(s) == s # << >> /\ \A i \in 1..Len(s) : IsDigit(s[i])

\* str::parse::<u8>: an optional '+', then decimal digits, value <= 255
U8Max == 255
ParseU8(s) ==
    LET body == IF s # << >> /\ s[1] = "+" THEN Tail(s) ELSE s
    IN  IF ~AllDigits(body) THEN None
        ELSE IF DigitsValue(body) > U8Max THEN None
        ELSE Some(DigitsValue(body))

\* str::parse::<i64>: an optional sign, then decimal digits (the model's
\* timestamps are far shorter than the 19 digits at which i64 overflows)
ParseI64(s) ==
    LET signed == s # << >> /\ s[1] \in {"+", "-"}
        body == IF signed THEN Tail(s) ELSE s
    IN  IF ~AllDigits(body) THEN None
        ELSE IF signed /\ s[1] = "-" THEN Some(0 - DigitsValue(body))
        ELSE Some(DigitsValue(body))

\* Rust's integer division truncates toward zero
TruncDiv(a, b) == IF a >= 0 THEN a \div b ELSE 0 - ((0 - a) \div b)

UpperLetters ==
    << "A", "B", "C", "D", "E", "F", "G", "H", "I", "J", "K", "L", "M",
       "N", "O", "P", "Q", "R", "S", "T", "U", "V", "W", "X", "Y", "Z" >>
LowerLetters ==
    << "a", "b", "c", "d", "e", "f", "g", "h", "i", "j", "k", "l", "m",
       "n", "o", "p", "q", "r", "s", "t", "u", "v", "w", "x", "y", "z" >>

Range(f) == { f[i] : i \in DOMAIN f }

\* char::to_lowercase, on ASCII
LowerChar(c) ==
    IF c \in Range(UpperLetters)
    THEN LowerLetters[CHOOSE i \in DOMAIN UpperLetters : UpperLetters[i] = c]
    ELSE c

to_lowercase(s) == [i \in 1..Len(s) |-> LowerChar(s[i])]

\* str::contains: sub occurs in s as a contiguous substring
contains(s, sub) ==
    \E i \in 0..(Len(s) - Len(sub)) : SubSeq(s, i + 1, i + Len(sub)) = sub

\* str::starts_with
HasPrefix(s, pre) == Len(s) >= Len(pre) /\ SubSeq(s, 1, Len(pre)) = pre

\* \w of the regex crate, on ASCII
IsWordChar(c) ==
    c \in Digits \cup Range(UpperLetters) \cup Range(LowerLetters) \cup {"_"}

IsSpace(c) == c = " "

----------------------------------------------------------------------------
(* JournalEntry (src/journalctl.rs).  Fields no modelled function reads    *)
(* (hostname, pid, transport) are left out.                                *)

MkEntry(ts, prio, ident, unit, text) ==
    [ realtime_timestamp |-> ts, priority |-> prio, syslog_identifier |-> ident,
      systemd_unit |-> unit, message |-> text ]

priority_num(e) ==
    IF e.priority = None THEN 6
    ELSE LET p == ParseU8(e.priority[1])
         IN  IF p = None THEN 6 ELSE p[1]

Unknown == << "u", "n", "k", "n", "o", "w", "n" >>

service(e) ==
    IF IsSome(e.syslog_identifier) THEN e.syslog_identifier[1]
    ELSE IF IsSome(e.systemd_unit) THEN e.systemd_unit[1]
    ELSE Unknown

msg(e) == IF IsSome(e.message) THEN e.message[1] ELSE << >>

MicrosPerSec == 1000000

timestamp_secs(e) ==
    IF e.realtime_timestamp = None THEN None
    ELSE LET us == ParseI64(e.realtime_timestamp[1])
         IN  IF us = None THEN None ELSE Some(TruncDiv(us[1], MicrosPerSec))

SecsPerMinute == 60
SecsPerHour == 3600
SecsPerDay == 86400

\* chrono's "%Y-%m-%d %H:%M" of a Unix time, as the tuple of its numeric
\* fields <<year, month, day, hour, minute>>: the zero-padded text orders as
\* the tuple does.  Computed for January 1970, where the model's timestamps lie.
FormatMinute(t) ==
    << 1970, 1, 1 + (t \div SecsPerDay),
       (t % SecsPerDay) \div SecsPerHour,
       (t % SecsPerHour) \div SecsPerMinute >>

minute_bucket(e) ==
    LET secs == timestamp_secs(e)
    IN  IF secs = None THEN None
        ELSE Some(FormatMinute(TruncDiv(secs[1], SecsPerMinute) * SecsPerMinute))

----------------------------------------------------------------------------
(* NormalizeRegex::normalize (src/analyzer/filter.rs).                     *)
(* The model's messages are made of the words  x  y  1  12345  [1]  [11]  *)
(* deadbeef  http://x  and blanks.  Of the cascade's substitutions four    *)
(* can match such a string or the text an earlier substitution left, and   *)
(* they are applied in the cascade's order: the hex word                   *)
(* \b[0-9a-fA-F]{8,}\b , the URL  https?://[^\s]+ , the bracketed PID       *)
(* \[(\d+)\]  and the bare number  \b\d{5,}\b .  Every other pattern needs  *)
(* a character the words do not have (- . @ % 0x, a unit or keyword), a    *)
(* colon followed by digits, two path components after a slash, or a run   *)
(* of 12 or more hex digits.                                               *)

\* length of the maximal run of digits of s starting at position i
RECURSIVE DigitRun(_, _)
DigitRun(s, i) ==
    IF i > Len(s) \/ ~IsDigit(s[i]) THEN 0 ELSE 1 + DigitRun(s, i + 1)

\* length of the match of  \[(\d+)\]  at position i of s (0: no match)
PidMatchLen(s, i) ==
    IF s[i] # "[" THEN 0
    ELSE LET k == DigitRun(s, i + 1)
         IN  IF k >= 1 /\ i + k + 1 <= Len(s) /\ s[i + k + 1] = "]"
             THEN k + 2 ELSE 0

MinHexWord == 8

\* length of the match of  \b[0-9a-fA-F]{8,}\b  at position i of s (0: no match)
HexMatchLen(s, i) ==
    LET IsHex(c) == IsDigit(c) \/ c \in {"a", "b", "c", "d", "e", "f",
                                         "A", "B", "C", "D", "E", "F"}
        run == CHOOSE k \in 0..Len(s) :
                   /\ \A j \in i..(i + k - 1) : j <= Len(s) /\ IsHex(s[j])
                   /\ (i + k > Len(s) \/ ~IsHex(s[i + k]))
    IN  IF /\ run >= MinHexWord
           /\ (i = 1 \/ ~IsWordChar(s[i - 1]))
           /\ (i + run > Len(s) \/ ~IsWordChar(s[i + run]))
        THEN run ELSE 0

\* length of the match of  https?://[^\s]+  at position i of s (0: no match)
UrlMatchLen(s, i) ==
    LET rest == SubSeq(s, i, Len(s))
        scheme == IF HasPrefix(rest, << "h", "t", "t", "p", ":", "/", "/" >>) THEN 7
                  ELSE IF HasPrefix(rest, << "h", "t", "t", "p", "s", ":", "/", "/" >>) THEN 8 ELSE 0
        tail == CHOOSE k \in 0..Len(rest) :
                    /\ \A j \in (scheme + 1)..(scheme + k) : j <= Len(rest) /\ ~IsSpace(rest[j])
                    /\ (scheme + k + 1 > Len(rest) \/ IsSpace(rest[scheme + k + 1]))
    IN  IF scheme > 0 /\ tail >= 1 THEN scheme + tail ELSE 0

MinBareNumber == 5

\* length of the match of  \b\d{5,}\b  at position i of s (0: no match)
NumMatchLen(s, i) ==
    LET k == DigitRun(s, i)
    IN  IF /\ k >= MinBareNumber
           /\ (i = 1 \/ ~IsWordChar(s[i - 1]))
           /\ (i + k > Len(s) \/ ~IsWordChar(s[i + k]))
        THEN k ELSE 0

PidPlaceholder == << "[", "<", "P", "I", "D", ">", "]" >>
NumPlaceholder == << "<", "N", ">" >>

MatchLen(rule, s, i) ==
    CASE rule = "hex" -> HexMatchLen(s, i)
      [] rule = "url" -> UrlMatchLen(s, i)
      [] rule = "pid" -> PidMatchLen(s, i)
      [] rule = "num" -> NumMatchLen(s, i)

Replacement(rule) ==
    CASE rule = "hex" -> << "<", "H", "E", "X", ">" >>
      [] rule = "url" -> << "<", "U", "R", "L", ">" >>
      [] rule = "pid" -> PidPlaceholder
      [] rule = "num" -> NumPlaceholder

\* Regex::replace_all: leftmost, non-overlapping matches, scanning from i
RECURSIVE ReplaceFrom(_, _, _)
ReplaceFrom(rule, s, i) ==
    IF i > Len(s) THEN << >>
    ELSE LET k == MatchLen(rule, s, i)
         IN  IF k > 0 THEN Replacement(rule) \o ReplaceFrom(rule, s, i + k)
             ELSE << s[i] >> \o ReplaceFrom(rule, s, i + 1)

replace_all(rule, s) == ReplaceFrom(rule, s, 1)

\* SPACE_RE  \s+  replaced by one space
RECURSIVE CollapseSpaces(_)
CollapseSpaces(s) ==
    IF s = << >> THEN << >>
    ELSE IF IsSpace(s[1]) /\ Len(s) > 1 /\ IsSpace(s[2]) THEN CollapseSpaces(Tail(s))
    ELSE << s[1] >> \o CollapseSpaces(Tail(s))

RECURSIVE TrimStart(_)
TrimStart(s) ==
    IF s # << >> /\ IsSpace(s[1]) THEN TrimStart(Tail(s)) ELSE s

RECURSIVE TrimEnd(_)
TrimEnd(s) ==
    IF s # << >> /\ IsSpace(s[Len(s)]) THEN TrimEnd(SubSeq(s, 1, Len(s) - 1)) ELSE s

trim(s) == TrimEnd(TrimStart(s))

\* the substitutions in the cascade's order, then the blanks
normalize(m) ==
    trim(CollapseSpaces(
        replace_all("num", replace_all("pid", replace_all("url", replace_all("hex", m))))))

----------------------------------------------------------------------------
(* HashMap helpers *)

EmptyMap == [k \in {} |-> 0]

Get(m, k) == IF k \in DOMAIN m THEN m[k] ELSE 0

\* *map.entry(k).or_insert(0) += 1
Inc(m, k) == [x \in (DOMAIN m) \cup {k} |-> IF x = k THEN Get(m, k) + 1 ELSE m[x]]

\* the orders in which a HashMap with key set S may be iterated
Perms(S) ==
    { p \in [1..Cardinality(S) -> S] : \A i, j \in 1..Cardinality(S) : i # j => p[i] # p[j] }

\* Vec::truncate
Truncate(s, n) == IF Len(s) <= n THEN s ELSE SubSeq(s, 1, n)

RECURSIVE SumOver(_, _)
SumOver(m, S) ==
    IF S = {} THEN 0
    ELSE LET k == CHOOSE x \in S : TRUE IN m[k] + SumOver(m, S \ {k})

\* .values().sum()
SumValues(m) == SumOver(m, DOMAIN m)

\* String::cmp on two bucket keys (tuples of equal length)
RECURSIVE LexLess(_, _)
LexLess(a, b) ==
    IF a = << >> \/ b = << >> THEN FALSE
    ELSE IF a[1] # b[1] THEN a[1] < b[1]
    ELSE LexLess(Tail(a), Tail(b))

\* the keys of S in ascending order
RECURSIVE SortKeys(_)
SortKeys(S) ==
    IF S = {} THEN << >>
    ELSE LET mn == CHOOSE x \in S : \A y \in S \ {x} : LexLess(x, y)
         IN  << mn >> \o SortKeys(S \ {mn})

----------------------------------------------------------------------------
(* AnalysisState::process_entry (src/analyzer/state.rs)                    *)

NumPriorities == 8
MaxErrorPriority == 3
WarningPriority == 4

NewBucket == [total |-> 0, errors |-> 0, warnings |-> 0]

\* a faulty variant of CountPriority: the last slot is never counted
CountPriority_DropsLastSlot(hist, priority) ==
    IF priority < NumPriorities - 1 THEN [hist EXCEPT ![priority] = @ + 1] ELSE hist

\* a faulty variant of CountPriority: a priority above 7 is counted in slot 7
CountPriority_Clamps(hist, priority) ==
    IF priority < NumPriorities THEN [hist EXCEPT ![priority] = @ + 1]
    ELSE [hist EXCEPT ![NumPriorities - 1] = @ + 1]

\* if priority < 8 { entries_by_priority[priority] += 1 }
CountPriority(hist, priority) ==
    IF priority < NumPriorities THEN [hist EXCEPT ![priority] = @ + 1] ELSE hist

\* a faulty variant of TrackBucket: the bucket is restarted on every entry
TrackBucket_Restarts(series, bucket, priority) ==
    IF bucket = None THEN series
    ELSE LET key == bucket[1]
             new == [ total    |-> 1,
                      errors   |-> IF priority <= MaxErrorPriority THEN 1 ELSE 0,
                      warnings |-> IF priority = WarningPriority THEN 1 ELSE 0 ]
         IN  [k \in (DOMAIN series) \cup {key} |-> IF k = key THEN new ELSE series[k]]

\* a faulty variant of TrackBucket: `if priority <= 4` in place of `else if`
TrackBucket_CountsBoth(series, bucket, priority) ==
    IF bucket = None THEN series
    ELSE LET key == bucket[1]
             old == IF key \in DOMAIN series THEN series[key] ELSE NewBucket
             new == [ total    |-> old.total + 1,
                      errors   |-> IF priority <= MaxErrorPriority
                                   THEN old.errors + 1 ELSE old.errors,
                      warnings |-> IF priority <= WarningPriority
                                   THEN old.warnings + 1 ELSE old.warnings ]
         IN  [k \in (DOMAIN series) \cup {key} |-> IF k = key THEN new ELSE series[k]]

\* a faulty variant of TrackBucket: a warning opens no bucket
TrackBucket_SkipsWarnings(series, bucket, priority) ==
    IF bucket = None \/ priority = WarningPriority THEN series
    ELSE LET key == bucket[1]
             old == IF key \in DOMAIN series THEN series[key] ELSE NewBucket
             new == [ total    |-> old.total + 1,
                      errors   |-> IF priority <= MaxErrorPriority
                                   THEN old.errors + 1 ELSE old.errors,
                      warnings |-> old.warnings ]
         IN  [k \in (DOMAIN series) \cup {key} |-> IF k = key THEN new ELSE series[k]]

\* the time_series update for an entry with bucket key (an Option)
TrackBucket(series, bucket, priority) ==
    IF bucket = None THEN series
    ELSE LET key == bucket[1]
             old == IF key \in DOMAIN series THEN series[key] ELSE NewBucket
             new == [ total    |-> old.total + 1,
                      errors   |-> IF priority <= MaxErrorPriority
                                   THEN old.errors + 1 ELSE old.errors,
                      warnings |-> IF priority > MaxErrorPriority /\ priority = WarningPriority
                                   THEN old.warnings + 1 ELSE old.warnings ]
         IN  [k \in (DOMAIN series) \cup {key} |-> IF k = key THEN new ELSE series[k]]

\* a faulty variant of TrackMessage: the empty message is counted too
TrackMessage_CountsEmpty(messages, priority, m) ==
    IF priority <= WarningPriority THEN Inc(messages, m) ELSE messages

\* the error_messages update: priority <= 4 and a non-empty normalized message
TrackMessage(messages, priority, m) ==
    IF priority <= WarningPriority /\ m # << >> THEN Inc(messages, m) ELSE messages

\* a faulty variant of TrackTrend: warnings get no trend
TrackTrend_ErrorsOnly(trends, priority, m, bucket) ==
    IF priority <= MaxErrorPriority /\ m # << >> /\ bucket # None
    THEN [k \in (DOMAIN trends) \cup {m} |->
             IF k = m THEN Inc(IF m \in DOMAIN trends THEN trends[m] ELSE EmptyMap, bucket[1])
             ELSE trends[k]]
    ELSE trends

\* a faulty variant of TrackTrend: an entry with no bucket key is tracked
\* under the empty key
TrackTrend_UntimedKey(trends, priority, m, bucket) ==
    IF priority <= WarningPriority /\ m # << >>
    THEN [k \in (DOMAIN trends) \cup {m} |->
             IF k = m THEN Inc(IF m \in DOMAIN trends THEN trends[m] ELSE EmptyMap,
                               IF bucket = None THEN << >> ELSE bucket[1])
             ELSE trends[k]]
    ELSE trends

\* the message_trends update: as TrackMessage, and only with a bucket key
TrackTrend(trends, priority, m, bucket) ==
    IF priority <= WarningPriority /\ m # << >> /\ bucket # None
    THEN [k \in (DOMAIN trends) \cup {m} |->
             IF k = m THEN Inc(IF m \in DOMAIN trends THEN trends[m] ELSE EmptyMap, bucket[1])
             ELSE trends[k]]
    ELSE trends

\* the history variable's update: e counts for its message and has no bucket
NoteUntimed(h, e) ==
    IF /\ priority_num(e) <= WarningPriority
       /\ normalize(msg(e)) # << >>
       /\ minute_bucket(e) = None
    THEN Inc(h, normalize(msg(e)))
    ELSE h

NoCall == [op |-> "none", entry |-> None, n |-> 0]

\* AnalysisState::new
AnalysisState_new ==
    [ total_entries |-> 0,
      entries_by_priority |-> [p \in 0..(NumPriorities - 1) |-> 0],
      entries_by_service |-> EmptyMap,
      error_messages |-> EmptyMap,
      time_series |-> EmptyMap,
      message_trends |-> EmptyMap ]

\* a faulty variant of process_entry: a service is counted once, however
\* many entries it has
process_entry_ServiceOnce(st, e) ==
    LET priority == priority_num(e)
        bucket == minute_bucket(e)
        m == normalize(msg(e))
    IN  [ total_entries |-> st.total_entries + 1,
          entries_by_priority |-> CountPriority(st.entries_by_priority, priority),
          entries_by_service |->
              [x \in (DOMAIN st.entries_by_service) \cup {service(e)} |->
                  IF x = service(e) THEN 1 ELSE st.entries_by_service[x]],
          error_messages |-> TrackMessage(st.error_messages, priority, m),
          time_series |-> TrackBucket(st.time_series, bucket, priority),
          message_trends |-> TrackTrend(st.message_trends, priority, m, bucket) ]

\* AnalysisState::process_entry, from the state st to the state after e
process_entry(st, e) ==
    LET priority == priority_num(e)
        bucket == minute_bucket(e)
        m == normalize(msg(e))
    IN  [ total_entries |-> st.total_entries + 1,
          entries_by_priority |-> CountPriority(st.entries_by_priority, priority),
          entries_by_service |-> Inc(st.entries_by_service, service(e)),
          error_messages |-> TrackMessage(st.error_messages, priority, m),
          time_series |-> TrackBucket(st.time_series, bucket, priority),
          message_trends |-> TrackTrend(st.message_trends, priority, m, bucket) ]

ProcessEntry(e) ==
    /\ total_entries < MaxEntries
    /\ LET st == process_entry(
                     [ total_entries |-> total_entries,
                       entries_by_priority |-> entries_by_priority,
                       entries_by_service |-> entries_by_service,
                       error_messages |-> error_messages,
                       time_series |-> time_series,
                       message_trends |-> message_trends ], e)
       IN  /\ total_entries' = st.total_entries
           /\ entries_by_priority' = st.entries_by_priority
           /\ entries_by_service' = st.entries_by_service
           /\ time_series' = st.time_series
           /\ error_messages' = st.error_messages
           /\ message_trends' = st.message_trends
    /\ call' = [op |-> "process_entry", entry |-> Some(e), n |-> 0]
    /\ ret' = << >>
    /\ untimed' = NoteUntimed(untimed, e)
    /\ UNCHANGED << cliVars, guiVars, ioVars >>

----------------------------------------------------------------------------
(* Read accessors of AnalysisState (src/analyzer/state.rs).  Each takes    *)
(* &self, copies what it needs and sorts the copy.  sort_by is stable and  *)
(* the HashMap's iteration order is unspecified, so entries with equal     *)
(* counts may come out in any order.                                       *)

\* the (key, count) pairs of map m, by count descending, cut to n
TopByCount(m, n) ==
    { Truncate([i \in 1..Len(p) |-> [key |-> p[i], count |-> m[p[i]]]], n) :
        p \in { q \in Perms(DOMAIN m) :
                  \A i, j \in 1..Len(q) : i < j => m[q[i]] >= m[q[j]] } }

top_errors(n) == TopByCount(error_messages, n)

top_services(n) == TopByCount(entries_by_service, n)

sorted_time_series ==
    LET keys == SortKeys(DOMAIN time_series)
    IN  [i \in 1..Len(keys) |-> [key |-> keys[i], bucket |-> time_series[keys[i]]]]

\* one message's trend, sorted by bucket key; empty when it has none
SortedTrend(m) ==
    IF m \in DOMAIN message_trends
    THEN LET keys == SortKeys(DOMAIN message_trends[m])
         IN  [i \in 1..Len(keys) |-> [key |-> keys[i], count |-> message_trends[m][keys[i]]]]
    ELSE << >>

top_message_trends(n) ==
    { [i \in 1..Len(top) |-> [key |-> top[i].key, trend |-> SortedTrend(top[i].key)]] :
        top \in top_errors(n) }

----------------------------------------------------------------------------
(* AnalysisState::get_patterns (src/analyzer/state.rs).                    *)
(* The f64 comparisons are computed in integers: for the counts the model  *)
(* reaches,  max > (total / buckets) * 3.0  decides as  max * buckets >    *)
(* 3 * total,  active / buckets < 0.3  as  10 * active < 3 * buckets,      *)
(* > 0.4 likewise, and  (count / total) * 100.0 > 25.0  as  4 * count >    *)
(* total.  description and details are display text formatted from the     *)
(* same numbers; no code reads them back, and they are left out.           *)

MaxDisplayLen == 80
TopPatterns == 10
SpikeFactor == 3
SpikeMinPeak == 3
SpikeCriticalPeak == 50
MinPatternCount == 5
MaxBurstBuckets == 5
MinRecurringBuckets == 3
MinIncreasingBuckets == 4

Ellipsis == << ".", ".", "." >>

truncate_msg(m, max_len) ==
    IF Len(m) <= max_len THEN m ELSE SubSeq(m, 1, max_len) \o Ellipsis

severity_order(s) ==
    CASE s = "Critical" -> 0 [] s = "Warning" -> 1 [] s = "Info" -> 2

Signal(type, m, sev, count) ==
    [ pattern_type |-> type, message |-> truncate_msg(m, MaxDisplayLen),
      severity |-> sev, count |-> count ]

RECURSIVE MaxOver(_, _)
MaxOver(m, S) ==
    IF S = {} THEN 0
    ELSE LET k == CHOOSE x \in S : TRUE
             rest == MaxOver(m, S \ {k})
         IN  IF m[k] > rest THEN m[k] ELSE rest

RECURSIVE SumSeq(_, _, _, _)
\* the sum of buckets[keys[i]] for i in from..to
SumSeq(buckets, keys, from, to) ==
    IF from > to THEN 0
    ELSE buckets[keys[from]] + SumSeq(buckets, keys, from + 1, to)

\* a faulty variant of SpikeSignal: a peak of exactly 3 times the average counts
SpikeSignal_AtThreeTimes(m, total_count, buckets, num_buckets) ==
    LET num_active == Cardinality(DOMAIN buckets)
        max_in_bucket == MaxOver(buckets, DOMAIN buckets)
    IN  IF /\ num_active >= 2
           /\ max_in_bucket * num_buckets >= SpikeFactor * total_count
           /\ max_in_bucket >= SpikeMinPeak
        THEN << Signal("Spike", m,
                       IF max_in_bucket >= SpikeCriticalPeak THEN "Critical" ELSE "Warning",
                       total_count) >>
        ELSE << >>

\* a faulty variant of SpikeSignal: every spike is a Warning
SpikeSignal_AlwaysWarning(m, total_count, buckets, num_buckets) ==
    LET num_active == Cardinality(DOMAIN buckets)
        max_in_bucket == MaxOver(buckets, DOMAIN buckets)
    IN  IF /\ num_active >= 2
           /\ max_in_bucket * num_buckets > SpikeFactor * total_count
           /\ max_in_bucket >= SpikeMinPeak
        THEN << Signal("Spike", m, "Warning", total_count) >>
        ELSE << >>

SpikeSignal(m, total_count, buckets, num_buckets) ==
    LET num_active == Cardinality(DOMAIN buckets)
        max_in_bucket == MaxOver(buckets, DOMAIN buckets)
    IN  IF /\ num_active >= 2
           /\ max_in_bucket * num_buckets > SpikeFactor * total_count
           /\ max_in_bucket >= SpikeMinPeak
        THEN << Signal("Spike", m,
                       IF max_in_bucket >= SpikeCriticalPeak THEN "Critical" ELSE "Warning",
                       total_count) >>
        ELSE << >>

\* a faulty variant of BurstSignal: no look at the concentration
BurstSignal_AnyFraction(m, total_count, buckets, num_buckets) ==
    LET num_active == Cardinality(DOMAIN buckets)
    IN  IF /\ total_count >= MinPatternCount
           /\ num_active <= MaxBurstBuckets
        THEN << Signal("Burst", m, "Warning", total_count) >>
        ELSE << >>

BurstSignal(m, total_count, buckets, num_buckets) ==
    LET num_active == Cardinality(DOMAIN buckets)
    IN  IF /\ total_count >= MinPatternCount
           /\ 10 * num_active < 3 * num_buckets
           /\ num_active <= MaxBurstBuckets
        THEN << Signal("Burst", m, "Warning", total_count) >>
        ELSE << >>

\* a faulty variant of RecurringSignal: two active buckets are enough
RecurringSignal_TwoBuckets(m, total_count, buckets, num_buckets) ==
    LET num_active == Cardinality(DOMAIN buckets)
    IN  IF /\ total_count >= MinPatternCount
           /\ 10 * num_active > 4 * num_buckets
           /\ num_active >= 2
        THEN << Signal("Recurring", m, "Warning", total_count) >>
        ELSE << >>

RecurringSignal(m, total_count, buckets, num_buckets) ==
    LET num_active == Cardinality(DOMAIN buckets)
    IN  IF /\ total_count >= MinPatternCount
           /\ 10 * num_active > 4 * num_buckets
           /\ num_active >= MinRecurringBuckets
        THEN << Signal("Recurring", m, "Warning", total_count) >>
        ELSE << >>

\* a faulty variant of IncreasingSignal: the middle bucket of an odd number
\* goes to the first half
IncreasingSignal_MiddleFirst(m, total_count, buckets) ==
    LET num_active == Cardinality(DOMAIN buckets)
        sorted == SortKeys(DOMAIN buckets)
        mid == (num_active + 1) \div 2
        first_half == SumSeq(buckets, sorted, 1, mid)
        second_half == SumSeq(buckets, sorted, mid + 1, num_active)
    IN  IF /\ num_active >= MinIncreasingBuckets
           /\ second_half > first_half * 2
           /\ second_half >= MinPatternCount
        THEN << Signal("Increasing", m, "Warning", total_count) >>
        ELSE << >>

IncreasingSignal(m, total_count, buckets) ==
    LET num_active == Cardinality(DOMAIN buckets)
        sorted == SortKeys(DOMAIN buckets)
        mid == num_active \div 2
        first_half == SumSeq(buckets, sorted, 1, mid)
        second_half == SumSeq(buckets, sorted, mid + 1, num_active)
    IN  IF /\ num_active >= MinIncreasingBuckets
           /\ second_half > first_half * 2
           /\ second_half >= MinPatternCount
        THEN << Signal("Increasing", m, "Warning", total_count) >>
        ELSE << >>

\* what the first loop pushes for message m
TrendSignals(m, num_buckets) ==
    IF m \notin DOMAIN message_trends \/ DOMAIN message_trends[m] = {} THEN << >>
    ELSE LET total_count == error_messages[m]
             buckets == message_trends[m]
         IN  SpikeSignal(m, total_count, buckets, num_buckets)
             \o BurstSignal(m, total_count, buckets, num_buckets)
             \o RecurringSignal(m, total_count, buckets, num_buckets)
             \o IncreasingSignal(m, total_count, buckets)

\* the first loop over error_messages, visited in the order `order`
RECURSIVE TrendLoop(_, _, _)
TrendLoop(order, i, num_buckets) ==
    IF i > Len(order) THEN << >>
    ELSE TrendSignals(order[i], num_buckets) \o TrendLoop(order, i + 1, num_buckets)

\* a faulty variant of HighVolumeLoop: no look at the signals already pushed
RECURSIVE HighVolumeLoop_NoDedup(_, _, _, _)
HighVolumeLoop_NoDedup(order, i, total_errors, patterns) ==
    IF i > Len(order) THEN patterns
    ELSE LET m == order[i]
             count == error_messages[m]
             pushed ==
                 IF 4 * count > total_errors /\ count >= MinPatternCount
                 THEN Append(patterns,
                             Signal("HighVolume", m,
                                    IF 2 * count > total_errors THEN "Critical" ELSE "Warning",
                                    count))
                 ELSE patterns
         IN  HighVolumeLoop_NoDedup(order, i + 1, total_errors, pushed)

\* the second loop: a HighVolume signal unless the display string is taken
RECURSIVE HighVolumeLoop(_, _, _, _)
HighVolumeLoop(order, i, total_errors, patterns) ==
    IF i > Len(order) THEN patterns
    ELSE LET m == order[i]
             count == error_messages[m]
             already_added ==
                 \E k \in 1..Len(patterns) :
                     patterns[k].message = truncate_msg(m, MaxDisplayLen)
             pushed ==
                 IF 4 * count > total_errors /\ count >= MinPatternCount /\ ~already_added
                 THEN Append(patterns,
                             Signal("HighVolume", m,
                                    IF 2 * count > total_errors THEN "Critical" ELSE "Warning",
                                    count))
                 ELSE patterns
         IN  HighVolumeLoop(order, i + 1, total_errors, pushed)

\* a faulty variant of SignalBefore: within a severity, smaller counts first
SignalBefore_CountAscending(a, b) ==
    IF severity_order(a.severity) # severity_order(b.severity)
    THEN severity_order(a.severity) < severity_order(b.severity)
    ELSE a.count < b.count

\* the comparator of the final sort_by: a strictly before b
SignalBefore(a, b) ==
    IF severity_order(a.severity) # severity_order(b.severity)
    THEN severity_order(a.severity) < severity_order(b.severity)
    ELSE a.count > b.count

\* stable insertion of x into the sorted sequence s
RECURSIVE InsertSignal(_, _)
InsertSignal(s, x) ==
    IF s = << >> THEN << x >>
    ELSE IF SignalBefore(x, s[1]) THEN << x >> \o s
    ELSE << s[1] >> \o InsertSignal(Tail(s), x)

RECURSIVE SortSignals(_, _)
\* the stable sort of s[1..n]
SortSignals(s, n) ==
    IF n = 0 THEN << >> ELSE InsertSignal(SortSignals(s, n - 1), s[n])

\* the patterns vector before the final sort, the maps iterated in `order`
Candidates(order) ==
    LET num_buckets == Len(sorted_time_series)
        total_errors == SumValues(error_messages)
        trend == TrendLoop(order, 1, num_buckets)
    IN  IF num_buckets = 0 THEN << >>
        ELSE IF total_errors > 0 THEN HighVolumeLoop(order, 1, total_errors, trend)
        ELSE trend

\* what get_patterns returns when the maps are iterated in the order `order`
PatternsInOrder(order) ==
    LET all == Candidates(order)
    IN  Truncate(SortSignals(all, Len(all)), TopPatterns)

get_patterns == { PatternsInOrder(order) : order \in Perms(DOMAIN error_messages) }

----------------------------------------------------------------------------
(* The accessors as operations on the state *)

TopNs == 0..MaxTopN

\* a faulty variant of TopErrors: the call keeps only the messages it returns
TopErrors_Drains(n) ==
    /\ \E r \in top_errors(n) : ret' = r
    /\ call' = [op |-> "top_errors", entry |-> None, n |-> n]
    /\ error_messages' = [m \in {} |-> 0]
    /\ UNCHANGED << total_entries, entries_by_priority, entries_by_service,
                    time_series, message_trends, untimed, cliVars, guiVars, ioVars >>

TopErrors(n) ==
    /\ \E r \in top_errors(n) : ret' = r
    /\ call' = [op |-> "top_errors", entry |-> None, n |-> n]
    /\ UNCHANGED << aggVars, untimed, cliVars, guiVars, ioVars >>

TopServices(n) ==
    /\ \E r \in top_services(n) : ret' = r
    /\ call' = [op |-> "top_services", entry |-> None, n |-> n]
    /\ UNCHANGED << aggVars, untimed, cliVars, guiVars, ioVars >>

SortedTimeSeries ==
    /\ ret' = sorted_time_series
    /\ call' = [op |-> "sorted_time_series", entry |-> None, n |-> 0]
    /\ UNCHANGED << aggVars, untimed, cliVars, guiVars, ioVars >>

TopMessageTrends(n) ==
    /\ \E r \in top_message_trends(n) : ret' = r
    /\ call' = [op |-> "top_message_trends", entry |-> None, n |-> n]
    /\ UNCHANGED << aggVars, untimed, cliVars, guiVars, ioVars >>

GetPatterns ==
    /\ \E r \in get_patterns : ret' = r
    /\ call' = [op |-> "get_patterns", entry |-> None, n |-> 0]
    /\ UNCHANGED << aggVars, untimed, cliVars, guiVars, ioVars >>

----------------------------------------------------------------------------
(* The entries the aggregation run is fed *)

PriorityTexts == { << d >> : d \in Digits }

\* PRIORITY absent, "0" .. "7", and the out-of-range "8" and "9"
AggPriorities == {None} \cup { Some(t) : t \in PriorityTexts }

\* an error, a warning and an info entry
AggSeverities == { Some(<< "3" >>), Some(<< "4" >>), None }

Sshd == << "s", "s", "h", "d" >>
Cron == << "c", "r", "o", "n" >>

\* (syslog_identifier, systemd_unit): one pair for each branch of service()
AggServices == { << Some(Sshd), Some(Cron) >>, << None, Some(Cron) >>, << None, None >> }

MsgPid1 == << "x", "[", "1", "]" >>
MsgPid11 == << "x", "[", "1", "1", "]" >>
MsgBlank == << " " >>
MsgY == << "y" >>

\* "x[1]" and "x[11]" normalize to one key, " " to the empty string
AggMessages == { MsgPid1, MsgPid11, MsgBlank, MsgY }

\* microseconds: an instant of minute 00:00 and one of minute 00:01
AggTimestamps == { None, Some(<< "5", "9", "9", "9", "9", "9", "9", "9" >>), Some(<< "6", "0", "0", "0", "0", "0", "0", "0" >>) }

\* The entries fed to the run: every priority field on one line shape; every
\* message and timestamp at each severity class; one entry per service() branch.
AggEntries ==
    { MkEntry(Some(<< "5", "9", "9", "9", "9", "9", "9", "9" >>), p, Some(Sshd), None, Some(MsgPid1)) : p \in AggPriorities }
    \cup { MkEntry(ts, p, Some(Sshd), None, Some(m)) :
             ts \in AggTimestamps, p \in AggSeverities, m \in AggMessages }
    \cup { MkEntry(None, Some(<< "3" >>), sv[1], sv[2], Some(MsgY)) : sv \in AggServices }

----------------------------------------------------------------------------
(* Initial values of the parts a specification does not exercise *)

AggIdle ==
    /\ total_entries = AnalysisState_new.total_entries
    /\ entries_by_priority = AnalysisState_new.entries_by_priority
    /\ entries_by_service = AnalysisState_new.entries_by_service
    /\ error_messages = AnalysisState_new.error_messages
    /\ time_series = AnalysisState_new.time_series
    /\ message_trends = AnalysisState_new.message_trends
    /\ call = NoCall
    /\ ret = << >>
    /\ untimed = EmptyMap

CliIdle ==
    /\ cli_filter = None
    /\ cli_err = FALSE
    /\ checked = None

GuiIdle ==
    /\ filter = None
    /\ filter_bar = None
    /\ log_store = << >>
    /\ filtered_indices = << >>
    /\ changed = FALSE

\* JlogApp::new
AppIdle ==
    /\ is_loading = FALSE
    /\ is_connected = FALSE
    /\ status_message = "Ready"
    /\ total_lines = 0
    /\ bg_receiver = FALSE
    /\ bg_cmd_sender = FALSE

IoIdle ==
    /\ batch = << >>
    /\ saved = None
    /\ lines = << >>
    /\ reader = None
    /\ chan = << >>
    /\ sent = << >>
    /\ AppIdle
    /\ orphans = << >>
    /\ put = << >>

----------------------------------------------------------------------------
(* The aggregation run: AnalysisState::new, then process_entry per entry   *)
(* and the read accessors at any time.                                     *)

Init == AggIdle /\ CliIdle /\ GuiIdle /\ IoIdle

Next ==
    \/ \E e \in AggEntries : ProcessEntry(e)
    \/ \E n \in TopNs : TopErrors(n)
    \/ \E n \in TopNs : TopServices(n)
    \/ SortedTimeSeries
    \/ \E n \in TopNs : TopMessageTrends(n)
    \/ GetPatterns

Spec == Init /\ [][Next]_vars

----------------------------------------------------------------------------
(* Regular expressions (the regex crate), on the fragment the model uses:  *)
(* an optional leading (?i), then literal text in which parentheses group  *)
(* and | separates alternatives, with | only at the top level or inside    *)
(* one group that spans the rest of the pattern (the shape of every        *)
(* QUICK_PATTERNS entry).  A compiled Regex is kept as its pattern text.   *)

CaseFlag == << "(", "?", "i", ")" >>

\* the nesting depth after s, from depth d; -1 once a ")" has no "("
RECURSIVE ParenDepth(_, _)
ParenDepth(s, d) ==
    IF d < 0 \/ s = << >> THEN d
    ELSE ParenDepth(Tail(s), IF s[1] = "(" THEN d + 1
                             ELSE IF s[1] = ")" THEN d - 1 ELSE d)

PatternBody(text) ==
    IF HasPrefix(text, CaseFlag) THEN SubSeq(text, Len(CaseFlag) + 1, Len(text)) ELSE text

\* Regex::new(text).is_ok(): the groups are closed and none is unopened
ValidRegex(text) == ParenDepth(PatternBody(text), 0) = 0

IsParen(c) == c \in {"(", ")"}
NotParen(c) == ~IsParen(c)

\* the pieces of s between the | characters
RECURSIVE SplitBars(_, _)
SplitBars(s, cur) ==
    IF s = << >> THEN {cur}
    ELSE IF s[1] = "|" THEN {cur} \cup SplitBars(Tail(s), << >>)
    ELSE SplitBars(Tail(s), Append(cur, s[1]))

Alternatives(text) == SplitBars(SelectSeq(PatternBody(text), NotParen), << >>)

\* Regex::is_match: some alternative occurs in the text (unanchored search)
is_match(regex, text) ==
    IF HasPrefix(regex, CaseFlag)
    THEN \E a \in Alternatives(regex) : contains(to_lowercase(text), to_lowercase(a))
    ELSE \E a \in Alternatives(regex) : contains(text, a)

----------------------------------------------------------------------------
(* FilterCriteria of the command-line path (src/analyzer/filter.rs)        *)

\* FilterCriteria::new: Err (None here) when the pattern does not compile
FilterCriteria_new(unit, max_priority, pattern) ==
    IF pattern # None /\ ~ValidRegex(pattern[1]) THEN None
    ELSE Some([unit |-> unit, max_priority |-> max_priority, pattern |-> pattern])

\* a faulty variant of PriorityRejects: the ceiling itself is rejected
PriorityRejects_AtCeiling(f, e) == priority_num(e) >= f.max_priority

\* if entry.priority_num() > self.max_priority { return false }
PriorityRejects(f, e) == priority_num(e) > f.max_priority

\* the unit/service check: lower-cased substring containment
ServiceRejects(f, e) ==
    f.unit # None /\ ~contains(to_lowercase(service(e)), to_lowercase(f.unit[1]))

PatternRejects(f, e) == f.pattern # None /\ ~is_match(f.pattern[1], msg(e))

matches(f, e) ==
    IF PriorityRejects(f, e) THEN FALSE
    ELSE IF ServiceRejects(f, e) THEN FALSE
    ELSE IF PatternRejects(f, e) THEN FALSE
    ELSE TRUE

\* analyze(): FilterCriteria::new(unit, priority, pattern)? -- once per run
CliNew(unit, max_priority, pattern) ==
    /\ cli_filter = None /\ ~cli_err
    /\ cli_filter' = FilterCriteria_new(unit, max_priority, pattern)
    /\ cli_err' = (FilterCriteria_new(unit, max_priority, pattern) = None)
    /\ UNCHANGED << checked, aggVars, callVars, guiVars, ioVars >>

\* analyze(): filter.matches(&entry) for a parsed line
CliMatches(e) ==
    /\ cli_filter # None
    /\ checked' = Some([entry |-> e, verdict |-> matches(cli_filter[1], e)])
    /\ UNCHANGED << cli_filter, cli_err, aggVars, callVars, guiVars, ioVars >>

Ssh == << "s", "s", "h" >>
SshUpper == << "S", "S", "H" >>
X == << "x" >>
Y == << "y" >>
GroupX == << "(", "x", ")" >>
OpenParen == << "(" >>

\* --unit
CliUnits == { None, Some(Ssh), Some(SshUpper), Some(Cron) }

\* --priority: any u8; 7 admits the eight syslog levels
CliMaxPriorities == { 3, 6, 7, U8Max }

\* --pattern: a literal, a group, and an unclosed group
CliPatterns == { None, Some(X), Some(GroupX), Some(OpenParen) }

\* PRIORITY fields a journal line can carry: absent, in range, signed,
\* out of range, not a number
CliPriorityFields ==
    { None, Some(<< "3" >>), Some(<< "7" >>), Some(<< "+", "3" >>),
      Some(<< "9" >>), Some(<< "x" >>) }

CliServices ==
    { << Some(Ssh), None >>, << Some(Sshd), None >>, << Some(SshUpper), None >>,
      << None, Some(Cron) >> }

CliMessages == { None, Some(<< "x", "y" >>), Some(Y) }

CliEntries ==
    { MkEntry(None, p, sv[1], sv[2], m) :
        p \in CliPriorityFields, sv \in CliServices, m \in CliMessages }

InitFilter == AggIdle /\ CliIdle /\ GuiIdle /\ IoIdle

NextFilter ==
    \/ \E u \in CliUnits, mp \in CliMaxPriorities, pat \in CliPatterns : CliNew(u, mp, pat)
    \/ \E e \in CliEntries : CliMatches(e)

SpecFilter == InitFilter /\ [][NextFilter]_vars

----------------------------------------------------------------------------
(* The filter of the log viewer.  FilterBar (src/ui/filter_bar.rs) and     *)
(* JlogApp (src/app.rs) drive a FilterCriteria with a set of units, two    *)
(* patterns and a combine mode, applied to LogEntry values.  That          *)
(* FilterCriteria, LogEntry and LogStore are used but not defined by the   *)
(* sources at hand; they are written here from the specification's         *)
(* sections 3 and 4.3, and from the fields and calls the callers use.      *)

LogEntry(line_num, timestamp, priority, svc, message) ==
    [ line_num |-> line_num, timestamp |-> timestamp, priority |-> priority,
      service |-> svc, message |-> message ]

\* FilterCriteria::default(): every service, ceiling 7, no pattern, mode Match
FilterCriteria_default ==
    [ units |-> {}, max_priority |-> 7, pattern |-> None, pattern2 |-> None,
      combine_mode |-> "Match" ]

\* set_pattern: the filter after the call; an invalid pattern changes nothing
set_pattern(f, text) ==
    IF ValidRegex(text) THEN [f EXCEPT !.pattern = Some(text)] ELSE f

set_pattern2(f, text) ==
    IF ValidRegex(text) THEN [f EXCEPT !.pattern2 = Some(text)] ELSE f

\* a faulty variant of PatternCheck: And is satisfied by either pattern
PatternCheck_AndAsOr(f, message) ==
    LET m1 == f.pattern # None /\ is_match(f.pattern[1], message)
        m2 == f.pattern2 # None /\ is_match(f.pattern2[1], message)
    IN  CASE f.combine_mode = "Match" -> f.pattern = None \/ m1
          [] f.combine_mode = "And" -> m1 \/ m2
          [] f.combine_mode = "Or" -> (f.pattern = None /\ f.pattern2 = None) \/ m1 \/ m2
          [] f.combine_mode = "Not" -> f.pattern = None \/ ~m1

\* a faulty variant of PatternCheck: Or with no pattern configured fails
PatternCheck_EmptyOrFails(f, message) ==
    LET m1 == f.pattern # None /\ is_match(f.pattern[1], message)
        m2 == f.pattern2 # None /\ is_match(f.pattern2[1], message)
    IN  CASE f.combine_mode = "Match" -> f.pattern = None \/ m1
          [] f.combine_mode = "And" -> (f.pattern = None \/ m1) /\ (f.pattern2 = None \/ m2)
          [] f.combine_mode = "Or" -> m1 \/ m2
          [] f.combine_mode = "Not" -> f.pattern = None \/ ~m1

\* the pattern check of the four combine modes
PatternCheck(f, message) ==
    LET m1 == f.pattern # None /\ is_match(f.pattern[1], message)
        m2 == f.pattern2 # None /\ is_match(f.pattern2[1], message)
    IN  CASE f.combine_mode = "Match" -> f.pattern = None \/ m1
          [] f.combine_mode = "And" -> (f.pattern = None \/ m1) /\ (f.pattern2 = None \/ m2)
          [] f.combine_mode = "Or" -> (f.pattern = None /\ f.pattern2 = None) \/ m1 \/ m2
          [] f.combine_mode = "Not" -> f.pattern = None \/ ~m1

\* FilterCriteria::matches on a LogEntry
entry_matches(f, e) ==
    IF e.priority > f.max_priority THEN FALSE
    ELSE IF f.units # {} /\ e.service \notin f.units THEN FALSE
    ELSE PatternCheck(f, e.message)

----------------------------------------------------------------------------
(* FilterBar (src/ui/filter_bar.rs) and JlogApp::apply_filter (src/app.rs) *)

priority_max(choice) ==
    CASE choice = 0 -> 7 [] choice = 1 -> 6 [] choice = 2 -> 5
      [] choice = 3 -> 4 [] choice = 4 -> 3 [] choice = 5 -> 2 [] OTHER -> 7

QUICK_PATTERNS ==
    << << "(", "?", "i", ")", "(", "e", "r", "r", "o", "r", "|", "f", "a", "i", "l", "|", "f", "a", "t", "a", "l", ")" >>,
       << "(", "?", "i", ")", "(", "w", "a", "r", "n", "|", "t", "i", "m", "e", "o", "u", "t", "|", "d", "e", "n", "i", "e", "d", ")" >>,
       << "(", "?", "i", ")", "(", "s", "s", "h", "|", "s", "s", "h", "d", "|", "a", "u", "t", "h", ")" >>,
       << "(", "?", "i", ")", "(", "k", "e", "r", "n", "e", "l", "|", "o", "o", "m", "|", "s", "e", "g", "f", "a", "u", "l", "t", ")" >>,
       << "(", "?", "i", ")", "(", "s", "y", "s", "t", "e", "m", "d", "|", "s", "e", "r", "v", "i", "c", "e", "|", "u", "n", "i", "t", ")" >> >>

CombineModes == { "Match", "And", "Or", "Not" }

FilterBar_default ==
    [ pattern_text |-> << >>, pattern2_text |-> << >>,
      pattern_valid |-> TRUE, pattern2_valid |-> TRUE,
      selected_services |-> {}, priority_choice |-> 0, combine_mode |-> "Match" ]

\* JlogApp::apply_filter: the (0-based) indices of the entries f admits
RECURSIVE FilterFrom(_, _, _)
FilterFrom(f, entries, i) ==
    IF i > Len(entries) THEN << >>
    ELSE IF entry_matches(f, entries[i]) THEN << i - 1 >> \o FilterFrom(f, entries, i + 1)
    ELSE FilterFrom(f, entries, i + 1)

apply_filter(f) == FilterFrom(f, log_store.entries, 1)

\* JlogApp::update: if self.filter_bar.show(..) { self.apply_filter() }
AfterShow(did_change) ==
    /\ changed' = did_change
    /\ filtered_indices' = IF did_change THEN apply_filter(filter') ELSE filtered_indices
    /\ UNCHANGED << log_store, aggVars, callVars, cliVars, ioVars >>

\* show: the first text box changed to `text`
TypePattern(text) ==
    /\ text # filter_bar.pattern_text
    /\ filter' = set_pattern(filter, text)
    /\ filter_bar' = [filter_bar EXCEPT !.pattern_text = text,
                                        !.pattern_valid = ValidRegex(text)]
    /\ AfterShow(ValidRegex(text))

\* show: a combine-mode button clicked
ClickMode(mode) ==
    /\ filter' = [filter EXCEPT !.combine_mode = mode]
    /\ filter_bar' = [filter_bar EXCEPT !.combine_mode = mode]
    /\ AfterShow(TRUE)

\* show: the second text box (drawn in the AND and OR modes) changed to `text`
TypePattern2(text) ==
    /\ filter_bar.combine_mode \in {"And", "Or"}
    /\ text # filter_bar.pattern2_text
    /\ filter' = set_pattern2(filter, text)
    /\ filter_bar' = [filter_bar EXCEPT !.pattern2_text = text,
                                        !.pattern2_valid = ValidRegex(text)]
    /\ AfterShow(ValidRegex(text))

\* show: "All" clicked in the service list
ClickAllServices ==
    /\ filter' = [filter EXCEPT !.units = {}]
    /\ filter_bar' = [filter_bar EXCEPT !.selected_services = {}]
    /\ AfterShow(TRUE)

\* show: the checkbox of one listed service toggled
ToggleService(svc) ==
    /\ svc \in log_store.services
    /\ LET selected == IF svc \in filter_bar.selected_services
                       THEN filter_bar.selected_services \ {svc}
                       ELSE filter_bar.selected_services \cup {svc}
       IN  /\ filter' = [filter EXCEPT !.units = selected]
           /\ filter_bar' = [filter_bar EXCEPT !.selected_services = selected]
    /\ AfterShow(TRUE)

\* show: a priority label picked
PickPriority(i) ==
    /\ filter' = [filter EXCEPT !.max_priority = priority_max(i)]
    /\ filter_bar' = [filter_bar EXCEPT !.priority_choice = i]
    /\ AfterShow(TRUE)

\* show: a quick-pattern button clicked
QuickPattern(i) ==
    /\ filter' = set_pattern(filter, QUICK_PATTERNS[i])
    /\ filter_bar' = [filter_bar EXCEPT !.pattern_text = QUICK_PATTERNS[i],
                                        !.pattern_valid = ValidRegex(QUICK_PATTERNS[i])]
    /\ AfterShow(TRUE)

\* show: "Clear" clicked
ClearFilter ==
    /\ filter' = FilterCriteria_default
    /\ filter_bar' = FilterBar_default
    /\ AfterShow(TRUE)

\* FilterBar::apply_to_filter: the criteria rebuilt from the bar's state
apply_to_filter(bar) ==
    LET f0 == FilterCriteria_default
        f1 == IF bar.pattern_text # << >> THEN set_pattern(f0, bar.pattern_text) ELSE f0
        f2 == IF bar.pattern2_text # << >> THEN set_pattern2(f1, bar.pattern2_text) ELSE f1
    IN  [f2 EXCEPT !.units = bar.selected_services,
                   !.max_priority = priority_max(bar.priority_choice),
                   !.combine_mode = bar.combine_mode]

ApplyToFilter ==
    /\ filter' = apply_to_filter(filter_bar)
    /\ changed' = FALSE
    /\ UNCHANGED << filter_bar, filtered_indices, log_store, aggVars, callVars, cliVars, ioVars >>

\* what the text boxes receive: two literals and an unclosed group; an
\* emptied box is left out (the sources at hand do not say what set_pattern
\* makes of the empty string)
BarTexts == { X, Y, OpenParen }
BarTexts2 == { Y, OpenParen }

Fail == << "F", "A", "I", "L" >>

\* the loaded entries: the four messages on one service and priority, and
\* the other service and the other priorities on some of them
LoadedEntries ==
    << LogEntry(1, << >>, 3, Ssh, X),
       LogEntry(2, << >>, 3, Ssh, Y),
       LogEntry(3, << >>, 3, Ssh, << "x", "y" >>),
       LogEntry(4, << >>, 3, Ssh, Fail),
       LogEntry(5, << >>, 3, Sshd, X),
       LogEntry(6, << >>, 7, Sshd, << "x", "y" >>),
       LogEntry(7, << >>, 7, Ssh, Fail),
       LogEntry(8, << >>, 9, Ssh, << "x", "y" >>) >>

GuiServices == { Ssh, Sshd }

\* the priority labels and the quick-pattern buttons that get clicked
PriorityChoices == { 0, 2, 5 }
QuickChoices == { 1, 3 }

\* JlogApp after a file was loaded: reset_state left the bar and the filter
\* at their defaults, process_messages stored the entries and ran apply_filter
InitFilterBar ==
    /\ AggIdle /\ CliIdle /\ IoIdle
    /\ filter = FilterCriteria_default
    /\ filter_bar = FilterBar_default
    /\ log_store = [entries |-> LoadedEntries, services |-> GuiServices]
    /\ filtered_indices = FilterFrom(FilterCriteria_default, LoadedEntries, 1)
    /\ changed = FALSE

NextFilterBar ==
    \/ \E t \in BarTexts : TypePattern(t)
    \/ \E m \in CombineModes : ClickMode(m)
    \/ \E t \in BarTexts2 : TypePattern2(t)
    \/ ClickAllServices
    \/ \E svc \in GuiServices : ToggleService(svc)
    \/ \E i \in PriorityChoices : PickPriority(i)
    \/ \E i \in QuickChoices : QuickPattern(i)
    \/ ClearFilter
    \/ ApplyToFilter

SpecFilterBar == InitFilterBar /\ [][NextFilterBar]_vars

----------------------------------------------------------------------------
(* Priority inference for syslog-text lines (src/journalctl.rs)            *)

\* the keywords of the four tiers, by the priority each tier returns
PriorityKeywords ==
    [ t \in 2..5 |->
        CASE t = 2 -> { << "p", "a", "n", "i", "c" >>, << "f", "a", "t", "a", "l" >>, << "c", "r", "i", "t", "i", "c", "a", "l" >> }
          [] t = 3 -> { << "e", "r", "r", "o", "r" >>, << "f", "a", "i", "l", "e", "d" >>, << "f", "a", "i", "l", "u", "r", "e" >>, << "c", "a", "n", "n", "o", "t" >>, << "u", "n", "a", "b", "l", "e", " ", "t", "o" >>,
                        << "s", "e", "g", "f", "a", "u", "l", "t" >>, << "e", "x", "c", "e", "p", "t", "i", "o", "n" >> }
          [] t = 4 -> { << "w", "a", "r", "n", "i", "n", "g" >>, << "w", "a", "r", "n" >>, << "t", "i", "m", "e", "o", "u", "t" >>, << "t", "i", "m", "e", "d", " ", "o", "u", "t" >>, << "r", "e", "t", "r", "y", "i", "n", "g" >>,
                        << "d", "e", "p", "r", "e", "c", "a", "t", "e", "d" >>, << "d", "e", "n", "i", "e", "d" >>, << "r", "e", "f", "u", "s", "e", "d" >> }
          [] t = 5 -> { << "s", "t", "a", "r", "t", "e", "d" >>, << "s", "t", "o", "p", "p", "e", "d" >>, << "c", "o", "n", "n", "e", "c", "t", "e", "d" >>, << "d", "i", "s", "c", "o", "n", "n", "e", "c", "t", "e", "d" >>,
                        << "l", "o", "a", "d", "e", "d" >>, << "f", "i", "n", "i", "s", "h", "e", "d" >> } ]

\* an infer_priority whose warning tier is tried before the error tier
infer_priority_WarningFirst(m) ==
    LET msg_lower == to_lowercase(m)
        hit(t) == \E k \in PriorityKeywords[t] : contains(msg_lower, k)
    IN  IF hit(2) THEN 2
        ELSE IF hit(4) THEN 4
        ELSE IF hit(3) THEN 3
        ELSE IF hit(5) THEN 5
        ELSE 6

infer_priority(m) ==
    LET msg_lower == to_lowercase(m)
        hit(t) == \E k \in PriorityKeywords[t] : contains(msg_lower, k)
    IN  IF hit(2) THEN 2
        ELSE IF hit(3) THEN 3
        ELSE IF hit(4) THEN 4
        ELSE IF hit(5) THEN 5
        ELSE 6

\* words a syslog message is made of here: keywords of every tier in mixed
\* case, a keyword inside another word, and words of no tier
InferWords ==
    { << "F", "a", "t", "a", "l" >>, << "k", "e", "r", "n", "e", "l", " ", "p", "a", "n", "i", "c" >>, << "E", "R", "R", "O", "R" >>, << "F", "a", "i", "l", "e", "d" >>, << "u", "n", "a", "b", "l", "e", " ", "t", "o" >>, << "w", "a", "r", "n", "i", "n", "g" >>,
      << "W", "a", "r", "n" >>, << "t", "i", "m", "e", "d", " ", "o", "u", "t" >>, << "S", "t", "a", "r", "t", "e", "d" >>, << "d", "i", "s", "c", "o", "n", "n", "e", "c", "t", "e", "d" >>, << "f", "a", "i", "l", "u", "r" >>, << "o", "k" >>, << "x" >> }

\* messages of one word or of two words with a blank between
InferMessages ==
    InferWords \cup { a \o << " " >> \o b : a \in InferWords, b \in InferWords } \cup { << >> }

\* from_syslog_line: infer_priority(message)
InferPriority(m) ==
    /\ call' = [op |-> "infer_priority", entry |-> Some(m), n |-> 0]
    /\ ret' = infer_priority(m)
    /\ UNCHANGED << aggVars, untimed, cliVars, guiVars, ioVars >>

NextInfer == \E m \in InferMessages : InferPriority(m)

SpecInfer == Init /\ [][NextInfer]_vars

----------------------------------------------------------------------------
(* normalize as an operation of its own *)

NormalizeWords ==
    { << "d", "e", "a", "d", "b", "e", "e", "f" >>, << "h", "t", "t", "p", ":", "/", "/", "x" >>, << "1", "2", "3", "4", "5" >>, << "[", "1", "]" >>, << "x" >>, << " " >>, << "1" >> }

\* messages of up to three words written one after the other
NormalizeMessages ==
    { << >> } \cup NormalizeWords
      \cup { a \o b : a \in NormalizeWords, b \in NormalizeWords }
      \cup { a \o b \o c : a \in NormalizeWords, b \in NormalizeWords, c \in NormalizeWords }

\* process_entry: normalize_regex.normalize(entry.msg())
Normalize(m) ==
    /\ call' = [op |-> "normalize", entry |-> Some(m), n |-> 0]
    /\ ret' = normalize(m)
    /\ UNCHANGED << aggVars, untimed, cliVars, guiVars, ioVars >>

NextNormalize == \E m \in NormalizeMessages : Normalize(m)

SpecNormalize == Init /\ [][NextNormalize]_vars

----------------------------------------------------------------------------
(* get_patterns on the state a whole run leaves.  analyze                  *)
(* (src/analyzer/mod.rs) feeds every entry to process_entry and only then  *)
(* asks for the patterns; the runs below are chosen by the shape of each   *)
(* message's trend.                                                        *)

\* Display of an unsigned integer ({} in format!, to_string)
RECURSIVE ToDecimal(_)
ToDecimal(n) ==
    LET digit(d) == << "0", "1", "2", "3", "4", "5", "6", "7", "8", "9" >>[d + 1]
    IN  IF n < 10 THEN << digit(n) >>
        ELSE ToDecimal(n \div 10) \o << digit(n % 10) >>

\* the loop of analyze: state.process_entry(&entry) for es[i], es[i+1], ...
RECURSIVE process_all(_, _, _)
process_all(st, es, i) ==
    IF i > Len(es) THEN st ELSE process_all(process_entry(st, es[i]), es, i + 1)

\* n entries of one message and priority in minute k of the epoch, one
\* second apart; k = 0 for entries without a timestamp
RunEntries(text, prio, k, n) ==
    [ i \in 1..n |->
        MkEntry(IF k = 0 THEN None
                ELSE Some(ToDecimal((SecsPerMinute * k + i - 1) * MicrosPerSec)),
                Some(prio), Some(Sshd), None, Some(text)) ]

\* a message's entries in minutes 1..4, shape[k] of them in minute k
ShapeEntries(text, shape) ==
    RunEntries(text, << "3" >>, 1, shape[1]) \o RunEntries(text, << "3" >>, 2, shape[2])
    \o RunEntries(text, << "3" >>, 3, shape[3]) \o RunEntries(text, << "3" >>, 4, shape[4])

\* nothing; a peak of exactly 3 times the average of four buckets; a higher
\* peak; two even minutes; a rise over four minutes; three steady minutes;
\* one minute only; fourteen entries over three minutes
TrendShapes ==
    { << 0, 0, 0, 0 >>, << 3, 1, 0, 0 >>, << 6, 1, 0, 0 >>, << 6, 6, 0, 0 >>,
      << 1, 1, 1, 6 >>, << 2, 2, 1, 0 >>, << 6, 0, 0, 0 >>, << 0, 5, 5, 4 >> }

\* f minutes (5, 6) holding one info entry each
QuietMinutes(f) ==
    IF f = 0 THEN << >>
    ELSE IF f = 1 THEN RunEntries(<< "o", "k" >>, << "6" >>, 5, 1)
    ELSE RunEntries(<< "o", "k" >>, << "6" >>, 5, 1) \o RunEntries(<< "o", "k" >>, << "6" >>, 6, 1)

\* the runs: messages x and y each with a trend shape, quiet minutes, and
\* message z without timestamps; one run of four rising messages, which
\* raises more signals than get_patterns returns; one run in which no
\* entry has a timestamp; two runs with a peak of 50 and of 49 in one
\* minute; and two runs of a message over five minutes
PatternBatches ==
    { ShapeEntries(X, sx) \o ShapeEntries(Y, sy) \o QuietMinutes(f)
        \o RunEntries(<< "z" >>, << "3" >>, 0, z) :
        sx \in TrendShapes, sy \in TrendShapes, f \in 0..2, z \in {0, 6, 14} }
    \cup { ShapeEntries(X, << 1, 1, 1, 6 >>) \o ShapeEntries(Y, << 1, 1, 2, 6 >>)
             \o ShapeEntries(<< "z" >>, << 1, 1, 1, 7 >>) \o ShapeEntries(<< "w" >>, << 1, 1, 1, 6 >>)
             \o QuietMinutes(2),
           RunEntries(X, << "3" >>, 0, 6) \o RunEntries(Y, << "3" >>, 0, 14),
           ShapeEntries(X, << SpikeCriticalPeak, 1, 0, 0 >>) \o QuietMinutes(2),
           ShapeEntries(X, << SpikeCriticalPeak - 1, 1, 0, 0 >>) \o QuietMinutes(2),
           ShapeEntries(X, << 1, 1, 3, 1 >>) \o RunEntries(X, << "3" >>, 5, 1),
           ShapeEntries(X, << 1, 3, 1, 1 >>) \o RunEntries(X, << "3" >>, 5, 1) }

InitPatterns ==
    /\ \E es \in PatternBatches :
         LET st == process_all(AnalysisState_new, es, 1)
             RECURSIVE note_all(_, _)
             note_all(h, i) == IF i > Len(es) THEN h ELSE note_all(NoteUntimed(h, es[i]), i + 1)
         IN  /\ batch = es
             /\ total_entries = st.total_entries
             /\ entries_by_priority = st.entries_by_priority
             /\ entries_by_service = st.entries_by_service
             /\ error_messages = st.error_messages
             /\ time_series = st.time_series
             /\ message_trends = st.message_trends
             /\ untimed = note_all(EmptyMap, 1)
    /\ call = NoCall
    /\ ret = << >>
    /\ CliIdle /\ GuiIdle
    /\ saved = None /\ lines = << >> /\ reader = None /\ chan = << >> /\ sent = << >>
    /\ AppIdle /\ orphans = << >> /\ put = << >>

NextPatterns == GetPatterns

SpecPatterns == InitPatterns /\ [][NextPatterns]_vars

----------------------------------------------------------------------------
(* Lines and their parsers (src/journalctl.rs, src/analyzer/mod.rs,        *)
(* src/workers).  A line that is a JSON object is held as the object       *)
(* serde_json reads from it or writes for it: a function from keys to      *)
(* values, a value being a string or a number.  Any other line is held as  *)
(* its text, and no such text is a JSON document.  White space is the      *)
(* blank; the clock of parse_syslog_timestamp shows the year 1970 in UTC,  *)
(* and the lines are of its first half hour, whose microseconds fit the    *)
(* integers of TLC.                                                        *)

TextLine(t) == [ json |-> FALSE, text |-> t, obj |-> EmptyMap ]
JsonLine(o) == [ json |-> TRUE, text |-> << >>, obj |-> o ]
JsonStr(s) == [ str |-> TRUE, s |-> s, n |-> 0 ]
JsonNum(n) == [ str |-> FALSE, s |-> << >>, n |-> n ]

\* line.trim().is_empty()
IsBlank(l) == ~l.json /\ trim(l.text) = << >>

\* line.starts_with('{'), of the trimmed line
StartsWithBrace(l) == l.json \/ (trim(l.text) # << >> /\ trim(l.text)[1] = "{")

\* serde_json::from_str::<JournalEntry>: each renamed field is an
\* Option<String>, so its key may be missing but must hold a string if
\* present; keys that name no field are ignored
JournalEntry_from_json(l) ==
    LET keys == { "__REALTIME_TIMESTAMP", "_HOSTNAME", "PRIORITY", "SYSLOG_IDENTIFIER",
                  "_PID", "_SYSTEMD_UNIT", "MESSAGE", "_TRANSPORT" }
        field(k) == IF k \in DOMAIN l.obj THEN Some(l.obj[k].s) ELSE None
    IN  IF ~l.json \/ (\E k \in keys \cap DOMAIN l.obj : ~l.obj[k].str) THEN None
        ELSE Some(MkEntry(field("__REALTIME_TIMESTAMP"), field("PRIORITY"),
                          field("SYSLOG_IDENTIFIER"), field("_SYSTEMD_UNIT"),
                          field("MESSAGE")))

\* serde_json::from_str::<SavedJsonEntry>: every field has a default; the
\* three texts must be strings and priority a number that fits a u8
SavedJsonEntry_from_json(l) ==
    LET texts == { "timestamp", "service", "message" }
        text(k) == IF k \in DOMAIN l.obj THEN l.obj[k].s ELSE << >>
        bad == \/ \E k \in texts \cap DOMAIN l.obj : ~l.obj[k].str
               \/ /\ "priority" \in DOMAIN l.obj
                  /\ (l.obj["priority"].str \/ l.obj["priority"].n > U8Max)
    IN  IF ~l.json \/ bad THEN None
        ELSE Some([ timestamp |-> text("timestamp"),
                    priority |-> IF "priority" \in DOMAIN l.obj
                                 THEN l.obj["priority"].n ELSE 0,
                    service |-> text("service"),
                    message |-> text("message") ])

\* A pattern of the regex crate as its steps, each a character class taken
\* between min and max times (max 0: any number), as many as there are.
\* The classes are letter, digit, space, nonspace, ident ([^\[:]), any, and
\* a character for itself.
Step(class, min, max) == [ class |-> class, min |-> min, max |-> max ]

InClass(c, class) ==
    CASE class = "letter" -> c \in Range(UpperLetters) \cup Range(LowerLetters)
      [] class = "digit" -> IsDigit(c)
      [] class = "space" -> IsSpace(c)
      [] class = "nonspace" -> ~IsSpace(c)
      [] class = "ident" -> c \notin {"[", ":"}
      [] class = "any" -> TRUE
      [] OTHER -> c = class

\* the index after the longest run of the step's class from s[i] on
RunEnd(s, i, step) ==
    LET limit == IF step.max = 0 \/ i + step.max - 1 > Len(s) THEN Len(s)
                 ELSE i + step.max - 1
        stops == { j \in i..limit : ~InClass(s[j], step.class) }
    IN  IF stops = {} THEN limit + 1
        ELSE CHOOSE j \in stops : \A k \in stops : j <= k

\* ^steps$ on s from step k at index i: the index after each step, or None
RECURSIVE MatchFrom(_, _, _, _, _)
MatchFrom(s, steps, k, i, ends) ==
    LET next(j) == IF j - i < steps[k].min THEN None
                   ELSE MatchFrom(s, steps, k + 1, j, Append(ends, j))
    IN  IF k > Len(steps) THEN (IF i = Len(s) + 1 THEN Some(ends) ELSE None)
        ELSE next(RunEnd(s, i, steps[k]))

\* the first of the alternatives vs[n..] to match s, and its step ends
RECURSIVE FirstMatch(_, _, _)
FirstMatch(s, vs, n) ==
    LET pick(m) == IF m = None THEN FirstMatch(s, vs, n + 1)
                   ELSE Some([ alt |-> n, ends |-> m[1] ])
    IN  IF n > Len(vs) THEN None
        ELSE pick(MatchFrom(s, vs[n], 1, 1, << >>))

\* [A-Za-z]{3}\s+\d{1,2}\s+\d{2}:\d{2}:\d{2}
StampSteps ==
    << Step("letter", 3, 3), Step("space", 1, 0), Step("digit", 1, 2), Step("space", 1, 0),
       Step("digit", 2, 2), Step(":", 1, 1), Step("digit", 2, 2), Step(":", 1, 1),
       Step("digit", 2, 2) >>

\* SYSLOG_REGEX:
\*   ^([A-Za-z]{3}\s+\d{1,2}\s+\d{2}:\d{2}:\d{2})(?:\.\d+)?\s+(\S+)\s+
\*    ([^\[:]+)(?:\[(\d+)\])?:\s*(.*)$
\* with or without each optional group.  Between the host and capture 3 one
\* blank is taken and the others left to the capture: the regex leaves it
\* none, or one if a colon or bracket follows, and the capture is trimmed.
SyslogSteps(fraction, pid) ==
    StampSteps
    \o (IF fraction THEN << Step(".", 1, 1), Step("digit", 1, 0) >> ELSE << >>)
    \o << Step("space", 1, 0), Step("nonspace", 1, 0), Step("space", 1, 1),
          Step("ident", 1, 0) >>
    \o (IF pid THEN << Step("[", 1, 1), Step("digit", 1, 0), Step("]", 1, 1) >> ELSE << >>)
    \o << Step(":", 1, 1), Step("space", 0, 0), Step("any", 0, 0) >>

MonthNames ==
    << << "j", "a", "n" >>, << "f", "e", "b" >>, << "m", "a", "r" >>, << "a", "p", "r" >>,
       << "m", "a", "y" >>, << "j", "u", "n" >>, << "j", "u", "l" >>, << "a", "u", "g" >>,
       << "s", "e", "p" >>, << "o", "c", "t" >>, << "n", "o", "v" >>, << "d", "e", "c" >> >>

\* the days of each month of 1970, and the days of the year before it
MonthDays == << 31, 28, 31, 30, 31, 30, 31, 31, 30, 31, 30, 31 >>
DaysBefore == << 0, 31, 59, 90, 120, 151, 181, 212, 243, 273, 304, 334 >>

\* parse_syslog_timestamp: "%Y %b %d %H:%M:%S" of the clock's year and ts,
\* to Unix seconds; ts is capture 1 of SYSLOG_REGEX
parse_syslog_timestamp(ts) ==
    LET number(ends, k) == DigitsValue(SubSeq(ts, ends[k - 1], ends[k] - 1))
        months(name) == { m \in 1..12 : MonthNames[m] = name }
        seconds(m, d, h, mi, sec) ==
            IF d \in 1..MonthDays[m] /\ h < 24 /\ mi < 60 /\ sec < 60
            THEN Some((DaysBefore[m] + d - 1) * SecsPerDay + h * SecsPerHour
                      + mi * SecsPerMinute + sec)
            ELSE None
        fields(ms, ends) ==
            IF ms = {} THEN None
            ELSE seconds(CHOOSE m \in ms : TRUE, number(ends, 3), number(ends, 5),
                         number(ends, 7), number(ends, 9))
        read(m) == IF m = None THEN None
                   ELSE fields(months(to_lowercase(SubSeq(ts, 1, 3))), m[1])
    IN  read(MatchFrom(ts, StampSteps, 1, 1, << >>))

\* JournalEntry::from_syslog_line, of the trimmed line
from_syslog_line(line) ==
    LET entry(timestamp, ident, message) ==
            MkEntry(IF timestamp = None THEN None
                    ELSE Some(ToDecimal(timestamp[1] * MicrosPerSec)),
                    Some(ToDecimal(infer_priority(message))),
                    Some(trim(ident)), None, Some(message))
        \* f: the steps of the fraction, if taken; last: the final step
        captures(ends, f, last) ==
            entry(parse_syslog_timestamp(SubSeq(line, 1, ends[9] - 1)),
                  SubSeq(line, ends[12 + f], ends[13 + f] - 1),
                  SubSeq(line, ends[last - 1], Len(line)))
        build(m) == IF m = None THEN None
                    ELSE Some(captures(m[1].ends, IF m[1].alt <= 2 THEN 2 ELSE 0,
                                       Len(m[1].ends)))
    IN  build(FirstMatch(line, << SyslogSteps(TRUE, TRUE), SyslogSteps(TRUE, FALSE),
                                  SyslogSteps(FALSE, TRUE), SyslogSteps(FALSE, FALSE) >>, 1))

\* JournalEntry::from_syslog_line(line) of a line
SyslogEntry(l) == IF l.json THEN None ELSE from_syslog_line(trim(l.text))

\* parse_line of analyze (src/analyzer/mod.rs): the entry, and whether the
\* line counts as a parse error
parse_line(l) ==
    LET json(journal) ==
            IF journal # None THEN [entry |-> journal, error |-> FALSE]
            ELSE [entry |-> None, error |-> TRUE]
        text(syslog) ==
            IF syslog # None THEN [entry |-> syslog, error |-> FALSE]
            ELSE json(IF StartsWithBrace(l) THEN JournalEntry_from_json(l) ELSE None)
    IN  IF IsBlank(l) THEN [entry |-> None, error |-> FALSE]
        ELSE text(SyslogEntry(l))

\* a faulty variant of parse_ssh_line: a line of no form is not counted
parse_ssh_line_Uncounted(l) ==
    LET text(syslog) == [entry |-> syslog, error |-> FALSE]
        json(journal) ==
            IF journal # None THEN [entry |-> journal, error |-> FALSE]
            ELSE text(SyslogEntry(l))
    IN  json(IF StartsWithBrace(l) THEN JournalEntry_from_json(l) ELSE None)

\* parse_ssh_line, of a trimmed line that is not empty: JSON first
parse_ssh_line(l) ==
    LET text(syslog) ==
            IF syslog # None THEN [entry |-> syslog, error |-> FALSE]
            ELSE [entry |-> None, error |-> TRUE]
        json(journal) ==
            IF journal # None THEN [entry |-> journal, error |-> FALSE]
            ELSE text(SyslogEntry(l))
    IN  json(IF StartsWithBrace(l) THEN JournalEntry_from_json(l) ELSE None)

\* two decimal digits
Pad2(n) == IF n < 10 THEN << "0" >> \o ToDecimal(n) ELSE ToDecimal(n)

\* chrono's "%Y-%m-%d %H:%M:%S" of a Unix time within 1970
format_timestamp(t) ==
    LET doy == t \div SecsPerDay
        m == CHOOSE k \in 1..12 : DaysBefore[k] <= doy /\ doy < DaysBefore[k] + MonthDays[k]
    IN  ToDecimal(1970) \o << "-" >> \o Pad2(m) \o << "-" >> \o Pad2(doy - DaysBefore[m] + 1)
        \o << " " >> \o Pad2((t % SecsPerDay) \div SecsPerHour)
        \o << ":" >> \o Pad2((t % SecsPerHour) \div SecsPerMinute)
        \o << ":" >> \o Pad2(t % SecsPerMinute)

journal_to_log_entry(line_num, e) ==
    LET stamp(secs) == IF secs = None THEN << >> ELSE format_timestamp(secs[1])
    IN  LogEntry(line_num, stamp(timestamp_secs(e)), priority_num(e), service(e), msg(e))

\* SAVED_PLAINTEXT_REGEX:
\*   ^(\d{4}-\d{2}-\d{2}\s+\d{2}:\d{2}:\d{2})\s+(\S+)\[(\d+)\]:\s*(.*)$
\* with capture 2 of n characters; the regex takes the longest that matches
SavedSteps(n) ==
    << Step("digit", 4, 4), Step("-", 1, 1), Step("digit", 2, 2), Step("-", 1, 1),
       Step("digit", 2, 2), Step("space", 1, 0),
       Step("digit", 2, 2), Step(":", 1, 1), Step("digit", 2, 2), Step(":", 1, 1),
       Step("digit", 2, 2), Step("space", 1, 0),
       Step("nonspace", n, n), Step("[", 1, 1), Step("digit", 1, 0), Step("]", 1, 1),
       Step(":", 1, 1), Step("space", 0, 0), Step("any", 0, 0) >>

\* parse_saved_line
parse_saved_line(l, line_num) ==
    LET line == trim(l.text)
        priority(number) == IF number = None THEN 6 ELSE number[1]
        captures(ends) ==
            LogEntry(line_num, SubSeq(line, 1, ends[11] - 1),
                     priority(ParseU8(SubSeq(line, ends[14], ends[15] - 1))),
                     SubSeq(line, ends[12], ends[13] - 1),
                     SubSeq(line, ends[18], Len(line)))
        text(m) == IF m = None THEN None ELSE Some(captures(m[1].ends))
        json(record) ==
            IF record # None
            THEN Some(LogEntry(line_num, record[1].timestamp, record[1].priority,
                               record[1].service, record[1].message))
            ELSE None
    IN  IF IsBlank(l) THEN None
        ELSE IF l.json THEN json(SavedJsonEntry_from_json(l))
        ELSE text(FirstMatch(line, [ i \in 1..Len(line) |-> SavedSteps(Len(line) + 1 - i) ], 1))

\* the entry do_read of the file reader builds from line number n, if any
file_entry(l, n) ==
    LET choose(p) == IF p.entry # None THEN Some(journal_to_log_entry(n, p.entry[1]))
                     ELSE parse_saved_line(l, n)
    IN  choose(parse_line(l))

\* save_logs: one line per entry, in the format of the settings
save_logs(entries, format) ==
    LET json(e) == JsonLine([ line |-> JsonNum(e.line_num),
                              timestamp |-> JsonStr(e.timestamp),
                              priority |-> JsonNum(e.priority),
                              service |-> JsonStr(e.service),
                              message |-> JsonStr(e.message) ])
        text(e) == TextLine(e.timestamp \o << " " >> \o e.service \o << "[" >>
                            \o ToDecimal(e.priority) \o << "]", ":", " " >> \o e.message)
    IN  [ i \in 1..Len(entries) |->
            IF format = "Json" THEN json(entries[i]) ELSE text(entries[i]) ]

----------------------------------------------------------------------------
(* The readers and the viewer's poll.  analyze (src/analyzer/mod.rs) reads *)
(* a file into the AnalysisState; do_read (src/workers/file_reader.rs) and *)
(* do_ssh (src/workers/ssh_reader.rs) run on a thread of their own and     *)
(* send messages on an unbounded channel that JlogApp::process_messages    *)
(* (src/app.rs) drains.  One action is the opening of the source, one      *)
(* iteration of a reader's loop, the end of the loop, one poll, or one     *)
(* command of the menu.  A Progress message carries its line count and not *)
(* the percentage; the status line is held by its leading words.  When     *)
(* JlogApp drops its receiver the thread runs on as an orphan: each of its *)
(* sends fails, and the messages still queued are lost.                    *)

MaxLines == 2
MaxRuns == 2
FileProgressEvery == 50000
SshProgressEvery == 1000
DrainCap == 5000

\* the locals of a reader thread, with the commands waiting on its command
\* channel; history: whether it has seen a command, whether JlogApp has
\* cancelled the run, and the lines it has taken from the source since
NewReader(kind, run) ==
    Some([ kind |-> kind, run |-> run, open |-> kind = "cli", pos |-> 0,
           lines_read |-> 0, entries_sent |-> 0, parse_errors |-> 0,
           cmd |-> << >>, observed |-> FALSE, cancelled |-> FALSE, since |-> 0,
           done |-> FALSE ])

EntryMsg(e) == [ type |-> "Entry", entry |-> e ]
ProgressMsg(n) == [ type |-> "Progress", lines |-> n ]
\* a faulty variant of CompletedMsg: every line read is reported as an entry
CompletedMsg_CountsLines(r) ==
    [ type |-> "Completed", total_lines |-> r.lines_read, entries |-> r.lines_read ]

\* BackgroundMessage::Completed { total_lines: lines_read, entries: entries_sent }
CompletedMsg(r) ==
    [ type |-> "Completed", total_lines |-> r.lines_read, entries |-> r.entries_sent ]
ErrorMsg == [ type |-> "Error" ]
SshConnectedMsg == [ type |-> "SshConnected" ]
SshDisconnectedMsg == [ type |-> "SshDisconnected" ]

\* tx.send of each of ms, by the reader whose receiver JlogApp holds
Sends(ms) ==
    /\ chan' = chan \o ms
    /\ put' = put \o [i \in 1..Len(ms) |-> ms[i].type]

\* the reader of the given kind has yet to open its source
Opening(kind) ==
    /\ reader # None
    /\ reader[1].kind = kind /\ ~reader[1].open /\ ~reader[1].done

\* the reader of the given kind is in its loop and has a line left to read
Reading(kind) ==
    /\ reader # None
    /\ reader[1].kind = kind /\ reader[1].open
    /\ ~reader[1].observed /\ ~reader[1].done
    /\ reader[1].pos < Len(lines)

\* the reader of the given kind is at the end of its source
AtEnd(kind) ==
    /\ reader # None
    /\ reader[1].kind = kind /\ reader[1].open
    /\ ~reader[1].observed /\ ~reader[1].done
    /\ reader[1].pos = Len(lines)

\* one more line taken from the source, counted if the run is cancelled
Taken(r) ==
    [r EXCEPT !.pos = @ + 1, !.since = IF r.cancelled THEN @ + 1 ELSE @]

\* do_read: File::open and metadata succeed
FileOpen ==
    /\ Opening("file")
    /\ reader' = Some([reader[1] EXCEPT !.open = TRUE])
    /\ UNCHANGED << aggVars, callVars, cliVars, guiVars, batch, saved, lines, chan,
                    sent, appVars, threadVars >>

\* do_read returns the error of File::open, and read_file sends it
FileOpenError ==
    /\ Opening("file")
    /\ Sends(<< ErrorMsg >>)
    /\ reader' = Some([reader[1] EXCEPT !.done = TRUE])
    /\ UNCHANGED << aggVars, callVars, cliVars, guiVars, batch, saved, lines, sent,
                    appVars, orphans >>

\* do_read, one line: parse_line, else parse_saved_line, else a parse error
FileReadLine ==
    /\ Reading("file")
    /\ LET r == Taken(reader[1])
           n == r.lines_read + 1
           step(e) ==
               IF e = None
               THEN /\ reader' = Some([r EXCEPT !.lines_read = n, !.parse_errors = @ + 1])
                    /\ UNCHANGED << chan, sent, put >>
               ELSE /\ reader' = Some([r EXCEPT !.lines_read = n, !.entries_sent = @ + 1])
                    /\ Sends(<< EntryMsg(e[1]) >>
                               \o (IF n % FileProgressEvery = 0
                                   THEN << ProgressMsg(n) >> ELSE << >>))
                    /\ sent' = Append(sent, e[1])
       IN  step(file_entry(lines[reader[1].pos + 1], n))
    /\ UNCHANGED << aggVars, callVars, cliVars, guiVars, batch, saved, lines,
                    appVars, orphans >>

\* do_read, a line that cannot be read: Err(_) => continue
FileReadError ==
    /\ Reading("file")
    /\ reader' = Some([reader[1] EXCEPT !.pos = @ + 1])
    /\ UNCHANGED << aggVars, callVars, cliVars, guiVars, batch, saved, lines, chan,
                    sent, appVars, threadVars >>

\* a faulty variant of FileFinish: the end of the file is reported as an error
FileFinish_SendsError ==
    /\ AtEnd("file")
    /\ Sends(<< ErrorMsg >>)
    /\ reader' = Some([reader[1] EXCEPT !.done = TRUE])
    /\ UNCHANGED << aggVars, callVars, cliVars, guiVars, batch, saved, lines, sent,
                    appVars, orphans >>

\* do_read, after the loop
FileFinish ==
    /\ AtEnd("file")
    /\ Sends(<< CompletedMsg(reader[1]) >>)
    /\ reader' = Some([reader[1] EXCEPT !.done = TRUE])
    /\ UNCHANGED << aggVars, callVars, cliVars, guiVars, batch, saved, lines, sent,
                    appVars, orphans >>

\* do_ssh: connection, handshake, authentication and exec succeed
SshConnect ==
    /\ Opening("ssh")
    /\ Sends(<< SshConnectedMsg >>)
    /\ reader' = Some([reader[1] EXCEPT !.open = TRUE])
    /\ UNCHANGED << aggVars, callVars, cliVars, guiVars, batch, saved, lines, sent,
                    appVars, orphans >>

\* do_ssh returns the error of one of them: start_ssh sends it, and then
\* SshDisconnected
SshConnectError ==
    /\ Opening("ssh")
    /\ Sends(<< ErrorMsg, SshDisconnectedMsg >>)
    /\ reader' = Some([reader[1] EXCEPT !.done = TRUE])
    /\ UNCHANGED << aggVars, callVars, cliVars, guiVars, batch, saved, lines, sent,
                    appVars, orphans >>

\* do_ssh, one line with no command waiting: blank lines are skipped, the
\* others parsed
SshReadLine ==
    /\ Reading("ssh") /\ reader[1].cmd = << >>
    /\ LET r == Taken(reader[1])
           n == r.lines_read + 1
           l == lines[reader[1].pos + 1]
           progress == IF n % SshProgressEvery = 0 THEN << ProgressMsg(n) >> ELSE << >>
           send(e) ==
               /\ reader' = Some([r EXCEPT !.lines_read = n, !.entries_sent = @ + 1])
               /\ Sends(<< EntryMsg(e) >> \o progress)
               /\ sent' = Append(sent, e)
           step(p) ==
               IF p.entry = None
               THEN /\ reader' = Some([r EXCEPT !.lines_read = n,
                                                !.parse_errors =
                                                    IF p.error THEN @ + 1 ELSE @])
                    /\ Sends(progress)
                    /\ UNCHANGED sent
               ELSE send(journal_to_log_entry(n, p.entry[1]))
       IN  IF IsBlank(l)
           THEN /\ reader' = Some([r EXCEPT !.lines_read = n])
                /\ UNCHANGED << chan, sent, put >>
           ELSE step(parse_ssh_line(l))
    /\ UNCHANGED << aggVars, callVars, cliVars, guiVars, batch, saved, lines,
                    appVars, orphans >>

\* do_ssh, a read that fails with no command waiting: Error, break,
\* Completed, and the SshDisconnected of start_ssh
SshReadError ==
    /\ Reading("ssh") /\ reader[1].cmd = << >>
    /\ Sends(<< ErrorMsg, CompletedMsg(reader[1]), SshDisconnectedMsg >>)
    /\ reader' = Some([reader[1] EXCEPT !.done = TRUE])
    /\ UNCHANGED << aggVars, callVars, cliVars, guiVars, batch, saved, lines, sent,
                    appVars, orphans >>

\* do_ssh, a read that returns (a line or an error) with a command
\* waiting: cmd_rx.try_recv() gives Cancel or Disconnect, return Ok(())
SshObserve ==
    /\ Reading("ssh") /\ reader[1].cmd # << >>
    /\ reader' = Some([Taken(reader[1]) EXCEPT !.cmd = Tail(@), !.observed = TRUE])
    /\ UNCHANGED << aggVars, callVars, cliVars, guiVars, batch, saved, lines, chan,
                    sent, appVars, threadVars >>

\* a faulty variant of SshHangup: Completed is sent as at the end of the loop
SshHangup_SendsCompleted ==
    /\ reader # None /\ reader[1].kind = "ssh"
    /\ reader[1].observed /\ ~reader[1].done
    /\ Sends(<< CompletedMsg(reader[1]), SshDisconnectedMsg >>)
    /\ reader' = Some([reader[1] EXCEPT !.done = TRUE])
    /\ UNCHANGED << aggVars, callVars, cliVars, guiVars, batch, saved, lines, sent,
                    appVars, orphans >>

\* start_ssh, after do_ssh has returned at a command
SshHangup ==
    /\ reader # None /\ reader[1].kind = "ssh"
    /\ reader[1].observed /\ ~reader[1].done
    /\ Sends(<< SshDisconnectedMsg >>)
    /\ reader' = Some([reader[1] EXCEPT !.done = TRUE])
    /\ UNCHANGED << aggVars, callVars, cliVars, guiVars, batch, saved, lines, sent,
                    appVars, orphans >>

\* do_ssh, after the loop, and the SshDisconnected of start_ssh
SshFinish ==
    /\ AtEnd("ssh")
    /\ Sends(<< CompletedMsg(reader[1]), SshDisconnectedMsg >>)
    /\ reader' = Some([reader[1] EXCEPT !.done = TRUE])
    /\ UNCHANGED << aggVars, callVars, cliVars, guiVars, batch, saved, lines, sent,
                    appVars, orphans >>

\* analyze, one line: parse_line, and process_entry if the filter admits.
\* entries_sent counts the lines parse_line made an entry of.
CliReadLine ==
    /\ Reading("cli")
    /\ LET r == reader[1]
           process(st, e) ==
               /\ total_entries' = st.total_entries
               /\ entries_by_priority' = st.entries_by_priority
               /\ entries_by_service' = st.entries_by_service
               /\ error_messages' = st.error_messages
               /\ time_series' = st.time_series
               /\ message_trends' = st.message_trends
               /\ call' = [op |-> "process_entry", entry |-> Some(e), n |-> 0]
               /\ ret' = << >>
               /\ untimed' = NoteUntimed(untimed, e)
           admit(e) ==
               IF matches(cli_filter[1], e)
               THEN process(process_entry(
                                [ total_entries |-> total_entries,
                                  entries_by_priority |-> entries_by_priority,
                                  entries_by_service |-> entries_by_service,
                                  error_messages |-> error_messages,
                                  time_series |-> time_series,
                                  message_trends |-> message_trends ], e), e)
               ELSE UNCHANGED << aggVars, callVars >>
           step(p) ==
               /\ reader' = Some([r EXCEPT !.pos = @ + 1, !.lines_read = @ + 1,
                                           !.entries_sent = IF p.entry # None THEN @ + 1 ELSE @,
                                           !.parse_errors = IF p.error THEN @ + 1 ELSE @])
               /\ IF p.entry # None THEN admit(p.entry[1])
                  ELSE UNCHANGED << aggVars, callVars >>
       IN  step(parse_line(lines[r.pos + 1]))
    /\ UNCHANGED << cliVars, guiVars, batch, saved, lines, chan, sent, appVars, threadVars >>

\* analyze, after the loop
CliFinish ==
    /\ AtEnd("cli")
    /\ reader' = Some([reader[1] EXCEPT !.done = TRUE])
    /\ UNCHANGED << aggVars, callVars, cliVars, guiVars, batch, saved, lines, chan,
                    sent, appVars, threadVars >>

\* the entries of the messages ms[i..], in order
RECURSIVE EntriesOf(_, _)
EntriesOf(ms, i) ==
    IF i > Len(ms) THEN << >>
    ELSE IF ms[i].type = "Entry" THEN << ms[i].entry >> \o EntriesOf(ms, i + 1)
    ELSE EntriesOf(ms, i + 1)

\* a faulty variant of Stored: the newest entries go in front
Stored_NewestFirst(store, new) ==
    [ entries |-> new \o store.entries,
      services |-> store.services \cup { new[i].service : i \in 1..Len(new) } ]

\* log_store after the entries `new` are pushed
Stored(store, new) ==
    [ entries |-> store.entries \o new,
      services |-> store.services \cup { new[i].service : i \in 1..Len(new) } ]

\* the file save_now wrote in run `run`: the entries and the format
Saved(entries, format, run) == Some([ entries |-> entries, format |-> format, run |-> run ])

\* the fields of JlogApp that process_messages and save_now write, and
\* new_entries, the local of process_messages
AppState ==
    [ log_store |-> log_store, saved |-> saved,
      is_loading |-> is_loading, is_connected |-> is_connected,
      status_message |-> status_message, total_lines |-> total_lines,
      new_entries |-> FALSE ]

\* JlogApp::save_now with the settings' format; every entry is saved
\* (save_filtered_only is off), and save_logs succeeds
save_now(app, format, run) ==
    IF app.log_store.entries = << >>
    THEN [app EXCEPT !.status_message = "Nothing to save"]
    ELSE [app EXCEPT !.saved = Saved(app.log_store.entries, format, run),
                     !.status_message = "Saved"]

\* a faulty variant of apply_message: an Error starts the store afresh
apply_message_ErrorResets(app, m, auto_save, format, run) ==
    IF m.type = "Error"
    THEN [app EXCEPT !.log_store = [entries |-> << >>, services |-> {}],
                     !.new_entries = TRUE,
                     !.is_loading = FALSE, !.status_message = "Error"]
    ELSE IF m.type = "Entry"
    THEN [app EXCEPT !.log_store = Stored(@, << m.entry >>), !.new_entries = TRUE]
    ELSE app

\* process_messages, the arm of one message
apply_message(app, m, auto_save, format, run) ==
    CASE m.type = "Entry" ->
           [app EXCEPT !.log_store = Stored(@, << m.entry >>), !.new_entries = TRUE]
      [] m.type = "Progress" ->
           [app EXCEPT !.total_lines = m.lines, !.status_message = "Progress"]
      [] m.type = "Completed" ->
           [app EXCEPT !.is_loading = FALSE, !.total_lines = m.total_lines,
                       !.status_message = "Loaded"]
      [] m.type = "Error" ->
           [app EXCEPT !.is_loading = FALSE, !.status_message = "Error"]
      [] m.type = "SshConnected" ->
           [app EXCEPT !.is_connected = TRUE, !.status_message = "SSH connected"]
      [] m.type = "SshDisconnected" ->
           LET hung == [app EXCEPT !.is_connected = FALSE, !.is_loading = FALSE]
               named(a) == IF a.status_message \in { "Error", "Saved" } THEN a
                           ELSE [a EXCEPT !.status_message = "Disconnected"]
           IN  named(IF auto_save /\ app.log_store.entries # << >>
                     THEN save_now(hung, format, run) ELSE hung)

\* process_messages, the arms of ms[i..] in order
RECURSIVE apply_all(_, _, _, _, _, _)
apply_all(app, ms, i, auto_save, format, run) ==
    IF i > Len(ms) THEN app
    ELSE apply_all(apply_message(app, ms[i], auto_save, format, run), ms, i + 1,
                   auto_save, format, run)

\* a faulty variant of Received: the loop has no last round
Received_Unbounded(cap, waiting) == waiting

\* the rounds of `for _ in 0..cap` in which try_recv gives a message, with
\* `waiting` messages in the channel
Received(cap, waiting) == IF waiting < cap THEN waiting ELSE cap

\* a faulty variant of FindsDisconnected: the receiver is dropped as soon as
\* the sender is gone
FindsDisconnected_AtDone(cap, waiting, done) == done

\* a round of the loop gets TryRecvError::Disconnected: the sender is gone
\* and the messages waiting run out before the rounds do
FindsDisconnected(cap, waiting, done) == done /\ waiting < cap

\* JlogApp::process_messages with a receiver, as a loop of `cap` rounds:
\* the messages waiting are taken until the channel is empty or the rounds
\* are used up; the receiver is dropped if a round finds the channel empty
\* and the reader's sender gone; the filter is applied if an entry came.
\* A poll that finds the channel empty and the sender there does nothing.
Poll(cap, auto_save, format) ==
    /\ bg_receiver
    /\ chan # << >> \/ reader[1].done
    /\ LET k == Received(cap, Len(chan))
           apply(app) ==
               /\ log_store' = app.log_store
               /\ saved' = app.saved
               /\ is_loading' = app.is_loading
               /\ is_connected' = app.is_connected
               /\ status_message' = app.status_message
               /\ total_lines' = app.total_lines
               /\ filtered_indices' =
                    IF app.new_entries THEN FilterFrom(filter, app.log_store.entries, 1)
                    ELSE filtered_indices
       IN  /\ chan' = SubSeq(chan, k + 1, Len(chan))
           /\ bg_receiver' = ~FindsDisconnected(cap, Len(chan), reader[1].done)
           /\ apply(apply_all(AppState, SubSeq(chan, 1, k), 1, auto_save, format,
                              reader[1].run))
    /\ call' = [op |-> "process_messages", entry |-> None, n |-> cap]
    /\ UNCHANGED << aggVars, ret, untimed, cliVars, filter, filter_bar, changed,
                    batch, lines, reader, sent, bg_cmd_sender, threadVars >>

\* JlogApp::process_messages: 5,000 rounds
Drain(auto_save, format) == Poll(DrainCap, auto_save, format)

\* File > Save Logs Now
SaveNow(format) ==
    /\ reader # None /\ reader[1].kind # "cli" /\ reader[1].run < MaxRuns
    /\ LET apply(app) ==
               /\ saved' = app.saved
               /\ status_message' = app.status_message
       IN  apply(save_now(AppState, format, reader[1].run))
    /\ UNCHANGED << aggVars, callVars, cliVars, guiVars, batch, lines, reader, chan,
                    sent, is_loading, is_connected, total_lines, bg_receiver,
                    bg_cmd_sender, threadVars >>

\* the threads without a receiver after reset_state: the reader, if its
\* thread has not ended, joins them, with Cancel on its command channel if
\* JlogApp held the sender
Orphaned ==
    IF reader[1].done THEN orphans
    ELSE Append(orphans,
                [ locals |-> [reader[1] EXCEPT
                                 !.cmd = IF bg_cmd_sender THEN Append(@, "Cancel") ELSE @,
                                 !.cancelled = TRUE],
                  source |-> lines ])

\* a faulty variant of Restart: the new reader sends into the channel of the
\* old one, with what is waiting in it
Restart_KeepsChannel(kind, source) ==
    /\ reader # None /\ reader[1].kind # "cli" /\ reader[1].run < MaxRuns
    /\ orphans' = Orphaned
    /\ log_store' = [entries |-> << >>, services |-> {}]
    /\ filtered_indices' = << >>
    /\ filter' = FilterCriteria_default
    /\ filter_bar' = FilterBar_default
    /\ is_loading' = TRUE
    /\ is_connected' = FALSE
    /\ total_lines' = 0
    /\ bg_receiver' = TRUE
    /\ lines' = source
    /\ reader' = NewReader(kind, reader[1].run + 1)
    /\ chan' = chan
    /\ sent' = << >>
    /\ put' = << >>
    /\ UNCHANGED << aggVars, callVars, cliVars, changed, batch, saved >>

\* JlogApp::reset_state, and what load_file and start_ssh do alike: a new
\* channel, and the thread of a reader of the given kind on `source`
Restart(kind, source) ==
    /\ reader # None /\ reader[1].kind # "cli" /\ reader[1].run < MaxRuns
    /\ orphans' = Orphaned
    /\ log_store' = [entries |-> << >>, services |-> {}]
    /\ filtered_indices' = << >>
    /\ filter' = FilterCriteria_default
    /\ filter_bar' = FilterBar_default
    /\ is_loading' = TRUE
    /\ is_connected' = FALSE
    /\ total_lines' = 0
    /\ bg_receiver' = TRUE
    /\ lines' = source
    /\ reader' = NewReader(kind, reader[1].run + 1)
    /\ chan' = << >>
    /\ sent' = << >>
    /\ put' = << >>
    /\ UNCHANGED << aggVars, callVars, cliVars, changed, batch, saved >>

\* JlogApp::load_file
LoadFile(source) ==
    /\ Restart("file", source)
    /\ status_message' = "Loading"
    /\ bg_cmd_sender' = FALSE

\* JlogApp::start_ssh
StartSsh(source) ==
    /\ Restart("ssh", source)
    /\ status_message' = "Connecting"
    /\ bg_cmd_sender' = TRUE

\* File > Open on the file save_now wrote
LoadSaved == saved # None /\ LoadFile(save_logs(saved[1].entries, saved[1].format))

\* JlogApp::disconnect, which the menu offers while is_connected: the
\* command reaches the reader if its thread has not ended
Disconnect ==
    /\ is_connected
    /\ reader' = IF bg_cmd_sender /\ ~reader[1].done
                 THEN Some([reader[1] EXCEPT !.cmd = Append(@, "Disconnect"),
                                             !.cancelled = TRUE])
                 ELSE reader
    /\ bg_cmd_sender' = FALSE
    /\ is_connected' = FALSE
    /\ is_loading' = FALSE
    /\ status_message' = "Disconnected"
    /\ UNCHANGED << aggVars, callVars, cliVars, guiVars, batch, saved, lines, chan,
                    sent, total_lines, bg_receiver, threadVars >>

\* orphan i has yet to open its source, is in its loop with a line left,
\* or is at the end of its source
OrphanOpening(i) ==
    i \in 1..Len(orphans) /\ ~orphans[i].locals.open /\ ~orphans[i].locals.done

OrphanReading(i, kind) ==
    /\ i \in 1..Len(orphans)
    /\ orphans[i].locals.kind = kind /\ orphans[i].locals.open
    /\ ~orphans[i].locals.observed /\ ~orphans[i].locals.done
    /\ orphans[i].locals.pos < Len(orphans[i].source)

OrphanAtEnd(i, kind) ==
    /\ i \in 1..Len(orphans)
    /\ orphans[i].locals.kind = kind /\ orphans[i].locals.open
    /\ ~orphans[i].locals.done
    /\ orphans[i].locals.observed \/ orphans[i].locals.pos = Len(orphans[i].source)

\* an orphan opens its source (the SshConnected of do_ssh is not sent), or
\* fails to (nor is the Error)
OrphanOpen(i, ok) ==
    /\ OrphanOpening(i)
    /\ orphans' = [orphans EXCEPT ![i].locals.open = ok, ![i].locals.done = ~ok]
    /\ UNCHANGED << aggVars, callVars, cliVars, guiVars, batch, saved, lines, reader,
                    chan, sent, appVars, put >>

\* do_read without a receiver, one line: a parse error is counted and the
\* loop goes on; the send of an entry fails, return Ok(())
OrphanFileLine(i) ==
    /\ OrphanReading(i, "file")
    /\ LET r == Taken(orphans[i].locals)
           n == r.lines_read + 1
           step(e) ==
               orphans' = [orphans EXCEPT ![i].locals =
                              IF e = None
                              THEN [r EXCEPT !.lines_read = n, !.parse_errors = @ + 1]
                              ELSE [r EXCEPT !.lines_read = n, !.done = TRUE]]
       IN  step(file_entry(orphans[i].source[orphans[i].locals.pos + 1], n))
    /\ UNCHANGED << aggVars, callVars, cliVars, guiVars, batch, saved, lines, reader,
                    chan, sent, appVars, put >>

\* do_read without a receiver, a line that cannot be read
OrphanFileError(i) ==
    /\ OrphanReading(i, "file")
    /\ orphans' = [orphans EXCEPT ![i].locals.pos = @ + 1]
    /\ UNCHANGED << aggVars, callVars, cliVars, guiVars, batch, saved, lines, reader,
                    chan, sent, appVars, put >>

\* do_read without a receiver, after the loop: Completed is not sent
OrphanFileFinish(i) ==
    /\ OrphanAtEnd(i, "file")
    /\ orphans' = [orphans EXCEPT ![i].locals.done = TRUE]
    /\ UNCHANGED << aggVars, callVars, cliVars, guiVars, batch, saved, lines, reader,
                    chan, sent, appVars, put >>

\* do_ssh without a receiver, a read that returns: the thread of an ssh
\* reader is orphaned with a command waiting, and returns at it
OrphanSshObserve(i) ==
    /\ OrphanReading(i, "ssh")
    /\ orphans[i].locals.cmd # << >>
    /\ orphans' = [orphans EXCEPT ![i].locals =
                      [Taken(orphans[i].locals) EXCEPT !.cmd = Tail(@), !.observed = TRUE]]
    /\ UNCHANGED << aggVars, callVars, cliVars, guiVars, batch, saved, lines, reader,
                    chan, sent, appVars, put >>

\* do_ssh without a receiver has returned, at a command or at the end of
\* the stream: neither Completed nor SshDisconnected is sent
OrphanSshFinish(i) ==
    /\ OrphanAtEnd(i, "ssh")
    /\ orphans' = [orphans EXCEPT ![i].locals.done = TRUE]
    /\ UNCHANGED << aggVars, callVars, cliVars, guiVars, batch, saved, lines, reader,
                    chan, sent, appVars, put >>

SyslogLine == TextLine(<< "J", "a", "n", " ", "1", " ", "0", "0", ":", "0", "0", ":", "0", "1", " ", "h", " ", "s", "s", "h", "d", "[", "1", "]", ":", " ", "F", "a", "i", "l", "e", "d", " ", "x" >>)
SyslogSpacedLine == TextLine(<< "J", "a", "n", " ", "1", " ", "0", "0", ":", "0", "0", ":", "0", "2", " ", "h", " ", "m", "y", " ", "s", "v", "c", ":", " ", "o", "k" >>)
JournalLine ==
    JsonLine(("__REALTIME_TIMESTAMP" :> JsonStr(<< "3", "0", "0", "0", "0", "0", "0" >>)) @@ ("PRIORITY" :> JsonStr(<< "9" >>))
             @@ ("SYSLOG_IDENTIFIER" :> JsonStr(Cron)) @@ ("MESSAGE" :> JsonStr(X)))
JournalNumberLine == JsonLine("PRIORITY" :> JsonNum(3))
SavedTextLine == TextLine(<< "1", "9", "7", "0", "-", "0", "1", "-", "0", "1", " ", "0", "0", ":", "0", "0", ":", "0", "4", " ", "s", "s", "h", "d", "[", "9", "]", ":", " ", "x" >>)

\* a syslog line with a pid and one whose identifier has a blank; a journal
\* object with priority "9" and one whose priority is a number; a line of a
\* saved plain-text file; text of no form; a blank line; a broken object
InputLines ==
    { SyslogLine, SyslogSpacedLine, JournalLine, JournalNumberLine, SavedTextLine,
      TextLine(<< "o", "o", "p", "s" >>), TextLine(<< " " >>), TextLine(<< "{", "o", "o", "p", "s" >>) }

ReaderKinds == { "file", "ssh", "cli" }

SaveFormats == { "Json", "PlainText" }

\* the file of File > Open and the stream of Connect SSH in a later run
OpenFiles == { << SyslogLine >> }
SshStreams == { << SyslogLine, TextLine(<< "o", "o", "p", "s" >>) >> }

\* the state after load_file, after start_ssh, or at the start of analyze,
\* for a reader of one of `kinds` and a source of lines of `forms`
InitReaders(kinds, forms) ==
    /\ AggIdle
    /\ \E kind \in kinds :
         /\ reader = NewReader(kind, 1)
         /\ cli_filter = IF kind = "cli" THEN FilterCriteria_new(None, 7, None) ELSE None
         /\ is_loading = (kind # "cli")
         /\ bg_receiver = (kind # "cli")
         /\ bg_cmd_sender = (kind = "ssh")
         /\ status_message = CASE kind = "file" -> "Loading"
                               [] kind = "ssh" -> "Connecting"
                               [] kind = "cli" -> "Ready"
    /\ is_connected = FALSE
    /\ total_lines = 0
    /\ cli_err = FALSE /\ checked = None
    /\ filter = FilterCriteria_default
    /\ filter_bar = FilterBar_default
    /\ log_store = [entries |-> << >>, services |-> {}]
    /\ filtered_indices = << >>
    /\ changed = FALSE
    /\ lines \in UNION { [1..k -> forms] : k \in 0..MaxLines }
    /\ batch = << >> /\ saved = None /\ chan = << >> /\ sent = << >>
    /\ orphans = << >> /\ put = << >>

\* One run of a reader of each kind over every source, the polls, and the
\* saved file read back.
InitReader == InitReaders(ReaderKinds, InputLines)

NextReader ==
    \/ FileOpen
    \/ FileOpenError
    \/ FileReadLine
    \/ FileReadError
    \/ FileFinish
    \/ SshConnect
    \/ SshConnectError
    \/ SshReadLine
    \/ SshReadError
    \/ SshFinish
    \/ CliReadLine
    \/ CliFinish
    \/ \E auto_save \in BOOLEAN, format \in SaveFormats : Drain(auto_save, format)
    \/ \E format \in SaveFormats : SaveNow(format)
    \/ LoadSaved

SpecReader == InitReader /\ [][NextReader]_vars

\* The reader threads and the viewer with every command of the menu: a run
\* may be cancelled by a new one or disconnected at any moment, and the
\* thread it leaves behind runs on.  The sources are of a line that parses,
\* a line that does not, and a blank line.
ProducerLines == { SyslogLine, TextLine(<< "o", "o", "p", "s" >>), TextLine(<< " " >>) }

InitProducer == InitReaders({ "file", "ssh" }, ProducerLines)

ReaderStep ==
    \/ FileOpen
    \/ FileOpenError
    \/ FileReadLine
    \/ FileReadError
    \/ FileFinish
    \/ SshConnect
    \/ SshConnectError
    \/ SshReadLine
    \/ SshReadError
    \/ SshObserve
    \/ SshHangup
    \/ SshFinish

OrphanStep ==
    \/ \E i \in 1..(MaxRuns - 1), ok \in BOOLEAN : OrphanOpen(i, ok)
    \/ \E i \in 1..(MaxRuns - 1) : OrphanFileLine(i)
    \/ \E i \in 1..(MaxRuns - 1) : OrphanFileError(i)
    \/ \E i \in 1..(MaxRuns - 1) : OrphanFileFinish(i)
    \/ \E i \in 1..(MaxRuns - 1) : OrphanSshObserve(i)
    \/ \E i \in 1..(MaxRuns - 1) : OrphanSshFinish(i)

NextProducer ==
    \/ ReaderStep
    \/ OrphanStep
    \/ \E auto_save \in BOOLEAN, format \in SaveFormats : Drain(auto_save, format)
    \/ \E format \in SaveFormats : SaveNow(format)
    \/ LoadSaved
    \/ \E source \in OpenFiles : LoadFile(source)
    \/ \E source \in SshStreams : StartSsh(source)
    \/ Disconnect

SpecProducer == InitProducer /\ [][NextProducer]_vars

\* One File > Open after another, the thread of read_file and the polls. The
\* thread is scheduled: while it has the file to open, a line to read or the
\* end of the file to report, it takes a step.
InitFile == InitReaders({ "file" }, ProducerLines)

FileStep == FileOpen \/ FileOpenError \/ FileReadLine \/ FileReadError \/ FileFinish

NextFile ==
    \/ FileStep
    \/ \E auto_save \in BOOLEAN, format \in SaveFormats : Drain(auto_save, format)
    \/ \E source \in OpenFiles : LoadFile(source)

\* FileStep can be taken: it is ENABLED FileStep, written out
FileCanStep == reader # None /\ reader[1].kind = "file" /\ ~reader[1].done

\* weak fairness of FileStep, WF_vars(FileStep), with FileCanStep for its
\* enabling condition
FileScheduled == []<>(~FileCanStep) \/ []<><<FileStep>>_vars

SpecFile == InitFile /\ [][NextFile]_vars /\ FileScheduled

\* the same run with a thread that may never be scheduled
SpecFileUnfair == InitFile /\ [][NextFile]_vars

\* The same threads against the loop of process_messages run with a small
\* number of rounds as well as with its 5,000, so that a poll meets more
\* messages than it has rounds.
MaxPollCap == 2
PollCaps == 1..MaxPollCap \cup { DrainCap }

NextPoll ==
    \/ FileOpen
    \/ FileReadLine
    \/ FileFinish
    \/ SshConnect
    \/ SshReadLine
    \/ SshReadError
    \/ SshFinish
    \/ \E cap \in PollCaps, auto_save \in BOOLEAN, format \in SaveFormats :
           Poll(cap, auto_save, format)

SpecPoll == InitProducer /\ [][NextPoll]_vars

\* a poll, whatever its rounds and the save settings
PollStep ==
    \E cap \in PollCaps, auto_save \in BOOLEAN, format \in SaveFormats :
        Poll(cap, auto_save, format)

\* PollStep can be taken: it is ENABLED PollStep, written out
PollCanStep == bg_receiver /\ (chan # << >> \/ reader[1].done)

\* update() calls process_messages on every frame: weak fairness of
\* PollStep, WF_vars(PollStep), with PollCanStep for its enabling condition
PollScheduled == []<>(~PollCanStep) \/ []<><<PollStep>>_vars

\* The threads and a viewer that keeps polling; the threads themselves may
\* stall at any line.
SpecPollFair == SpecPoll /\ PollScheduled

----------------------------------------------------------------------------
(* The readers late in a long source.  Progress is sent at every 50,000th  *)
(* line of a file that gives an entry and at every 1,000th non-blank line  *)
(* of a stream, so a run of MaxLines lines from the first line never sends *)
(* one.  The runs below start where a reader stands two lines before its   *)
(* first or its second Progress, after lines that gave no entry (blank or  *)
(* unreadable as a log line) except, before the second Progress, the line  *)
(* at which the first was sent; `lines` holds the lines still to come and  *)
(* nothing has been polled, so `chan` holds every message of the run.      *)

\* the lines read so far: none, or two short of the first or second Progress
ProgressStarts(every) == { 0, every - 2, 2 * every - 2 }

\* the file reader after `start` lines
FileReaderAt(start) ==
    LET first == file_entry(SyslogLine, FileProgressEvery)[1]
        late == start > FileProgressEvery
    IN  [ locals |-> [ NewReader("file", 1)[1] EXCEPT
                         !.open = TRUE,
                         !.lines_read = start,
                         !.entries_sent = IF late THEN 1 ELSE 0,
                         !.parse_errors = IF late THEN start - 1 ELSE start ],
          chan |-> IF late THEN << EntryMsg(first), ProgressMsg(FileProgressEvery) >>
                   ELSE << >>,
          sent |-> IF late THEN << first >> ELSE << >> ]

\* the ssh reader after `start` lines
SshReaderAt(start) ==
    LET late == start > SshProgressEvery
    IN  [ locals |-> [ NewReader("ssh", 1)[1] EXCEPT
                         !.open = TRUE,
                         !.lines_read = start,
                         !.parse_errors = IF late THEN 1 ELSE 0 ],
          chan |-> IF late THEN << SshConnectedMsg, ProgressMsg(SshProgressEvery) >>
                   ELSE << SshConnectedMsg >>,
          sent |-> << >> ]

ReadersAt ==
    { FileReaderAt(start) : start \in ProgressStarts(FileProgressEvery) }
    \cup { SshReaderAt(start) : start \in ProgressStarts(SshProgressEvery) }

InitProgress ==
    /\ AggIdle
    /\ \E at \in ReadersAt :
         /\ reader = Some(at.locals)
         /\ chan = at.chan
         /\ sent = at.sent
         /\ put = [i \in 1..Len(at.chan) |-> at.chan[i].type]
         /\ bg_cmd_sender = (at.locals.kind = "ssh")
         /\ status_message = IF at.locals.kind = "ssh" THEN "Connecting" ELSE "Loading"
    /\ cli_filter = None /\ cli_err = FALSE /\ checked = None
    /\ is_loading = TRUE /\ bg_receiver = TRUE
    /\ is_connected = FALSE
    /\ total_lines = 0
    /\ filter = FilterCriteria_default
    /\ filter_bar = FilterBar_default
    /\ log_store = [entries |-> << >>, services |-> {}]
    /\ filtered_indices = << >>
    /\ changed = FALSE
    /\ lines \in UNION { [1..k -> ProducerLines] : k \in 0..MaxLines }
    /\ batch = << >> /\ saved = None
    /\ orphans = << >>

NextProgress ==
    \/ FileReadLine
    \/ FileFinish
    \/ SshReadLine
    \/ SshReadError
    \/ SshFinish

SpecProgress == InitProgress /\ [][NextProgress]_vars

----------------------------------------------------------------------------
(* Claims about the aggregation run (checked under Spec) *)

\* a step that is a process_entry call (every call changes total_entries)
ProcessStep == call'.op = "process_entry" /\ total_entries' # total_entries

AccessorOps ==
    { "top_errors", "top_services", "sorted_time_series", "top_message_trends",
      "get_patterns" }

PrioritySlots == 0..(NumPriorities - 1)

\* C1: for an entry whose priority is in 0..7, one process_entry call adds
\* exactly 1 to entries_by_priority[priority] and to total_entries, and leaves
\* the other seven slots as they were.
C1_PrioritySlotStep ==
    [][ ProcessStep =>
          LET p == priority_num(call'.entry[1])
          IN  p \in PrioritySlots =>
                /\ entries_by_priority'[p] = entries_by_priority[p] + 1
                /\ total_entries' = total_entries + 1
                /\ \A q \in PrioritySlots \ {p} :
                       entries_by_priority'[q] = entries_by_priority[q] ]_vars

\* C1 witness: the last call processed a priority-7 entry and slot 7 holds it
C1_Witness ==
    /\ call.op = "process_entry"
    /\ priority_num(call.entry[1]) = 7
    /\ entries_by_priority[7] = 1
    /\ total_entries = 2

\* the sum of a message's trend counts over all its buckets
TrendSum(m) ==
    IF m \in DOMAIN message_trends THEN SumValues(message_trends[m]) ELSE 0

\* C2: for every key m of error_messages the trend counts of m sum to
\* error_messages[m] when every entry counted for m carried a timestamp, and
\* to strictly less (never more) when some entry counted for m carried none.
C2_TrendSumMatchesCount ==
    \A m \in DOMAIN error_messages :
        /\ TrendSum(m) <= error_messages[m]
        /\ Get(untimed, m) = 0 => TrendSum(m) = error_messages[m]
        /\ Get(untimed, m) > 0 => TrendSum(m) < error_messages[m]

\* C2 witness: one message counted twice, once with and once without a timestamp
C2_Witness ==
    \E m \in DOMAIN error_messages :
        /\ error_messages[m] = 2
        /\ Get(untimed, m) = 1
        /\ TrendSum(m) = 1

\* every key of map a is a key of b with a value at least as large
MapGrows(a, b) == \A k \in DOMAIN a : k \in DOMAIN b /\ b[k] >= a[k]

\* C3: no step of a run lowers an accumulated statistic or removes a key:
\* total_entries, the priority slots, the service and message counts, every
\* bucket's total / errors / warnings and every per-message trend count.
C3_StatisticsMonotonic ==
    [][ /\ total_entries' >= total_entries
        /\ \A p \in PrioritySlots : entries_by_priority'[p] >= entries_by_priority[p]
        /\ MapGrows(entries_by_service, entries_by_service')
        /\ MapGrows(error_messages, error_messages')
        /\ \A k \in DOMAIN time_series :
               /\ k \in DOMAIN time_series'
               /\ time_series'[k].total >= time_series[k].total
               /\ time_series'[k].errors >= time_series[k].errors
               /\ time_series'[k].warnings >= time_series[k].warnings
        /\ \A m \in DOMAIN message_trends :
               /\ m \in DOMAIN message_trends'
               /\ MapGrows(message_trends[m], message_trends'[m]) ]_vars

\* C3 witness: a second entry landed in a bucket that already held an error
C3_Witness ==
    /\ call.op = "process_entry"
    /\ \E k \in DOMAIN time_series :
           time_series[k].total = 2 /\ time_series[k].errors = 1

\* C4: a call of top_services, top_errors, sorted_time_series,
\* top_message_trends or get_patterns leaves every field of the
\* AnalysisState as it was, whatever the state and the argument n.
C4_AccessorsLeaveState ==
    [][ call'.op \in AccessorOps => aggVars' = aggVars ]_vars

\* C4 witness: top_message_trends returned the trends of two messages
C4_Witness ==
    /\ call.op = "top_message_trends"
    /\ Len(ret) = 2
    /\ Cardinality(DOMAIN error_messages) = 2

\* C28: a process_entry call for an entry with a minute bucket adds 1 to
\* that bucket's total, 1 to its errors if the priority is at most 3, 1 to
\* its warnings if the priority is 4, and so to at most one of the two; in
\* every state every bucket has errors + warnings <= total.
C28_BucketCountsOnce ==
    /\ [][ ProcessStep =>
             LET p == priority_num(call'.entry[1])
                 step(k) ==
                     LET old == IF k \in DOMAIN time_series THEN time_series[k] ELSE NewBucket
                         new == time_series'[k]
                     IN  /\ new.total = old.total + 1
                         /\ new.errors = old.errors + (IF p <= 3 THEN 1 ELSE 0)
                         /\ new.warnings = old.warnings + (IF p = 4 THEN 1 ELSE 0)
                         /\ (new.errors - old.errors) + (new.warnings - old.warnings) <= 1
                 keyed(b) == b # None => b[1] \in DOMAIN time_series' /\ step(b[1])
             IN  keyed(minute_bucket(call'.entry[1])) ]_vars
    /\ [](\A k \in DOMAIN time_series :
            time_series[k].errors + time_series[k].warnings <= time_series[k].total)

\* C28 witness: one bucket holds an error and a warning entry
C28_Witness ==
    /\ call.op = "process_entry"
    /\ \E k \in DOMAIN time_series :
           /\ time_series[k].total = 2
           /\ time_series[k].errors = 1
           /\ time_series[k].warnings = 1

\* map b is map a with 1 added at key k, which is new if a has not got it
Incremented(a, b, k) ==
    /\ DOMAIN b = DOMAIN a \cup {k}
    /\ b[k] = Get(a, k) + 1
    /\ \A x \in DOMAIN a \ {k} : b[x] = a[x]

\* C29: a process_entry call changes error_messages if and only if the
\* entry's priority is at most 4 and its normalized message is not empty,
\* and then it adds 1 at that one key; a call for an entry of priority 5, 6
\* or 7 changes neither error_messages nor message_trends.
C29_MessageCountedOnce ==
    [][ ProcessStep =>
          LET p == priority_num(call'.entry[1])
              counted(m) ==
                  IF p <= 4 /\ m # << >>
                  THEN /\ error_messages' # error_messages
                       /\ Incremented(error_messages, error_messages', m)
                  ELSE error_messages' = error_messages
          IN  /\ counted(normalize(msg(call'.entry[1])))
              /\ p \in 5..7 => /\ error_messages' = error_messages
                               /\ message_trends' = message_trends ]_vars

\* C29 witness: a warning entry whose message normalizes to nothing was
\* processed after an error entry that was counted
C29_Witness ==
    /\ call.op = "process_entry"
    /\ priority_num(call.entry[1]) = 4
    /\ normalize(msg(call.entry[1])) = << >>
    /\ total_entries = 2
    /\ \E m \in DOMAIN error_messages : error_messages[m] = 1

\* the last call processed an entry with no minute bucket
UntimedStep == ProcessStep /\ minute_bucket(call'.entry[1]) = None

\* the step added one entry to the total and to the entry's service
CountedOnce ==
    /\ total_entries' = total_entries + 1
    /\ Incremented(entries_by_service, entries_by_service', service(call'.entry[1]))

\* C30 as stated: a process_entry call for an entry with no timestamp
\* leaves time_series and message_trends as they were, adds 1 to
\* total_entries and to the count of the entry's service and, when the
\* priority is at most 4, adds 1 to the count of the normalized message.
C30_UntimedStillCounted ==
    [][ UntimedStep =>
          /\ time_series' = time_series
          /\ message_trends' = message_trends
          /\ CountedOnce
          /\ priority_num(call'.entry[1]) <= 4 =>
                 Incremented(error_messages, error_messages',
                             normalize(msg(call'.entry[1]))) ]_vars

\* C30 amended: a process_entry call for an entry with no timestamp leaves
\* time_series and message_trends as they were, adds 1 to total_entries and
\* to the count of the entry's service and, when the priority is at most 4
\* and the normalized message is not empty, adds 1 to the count of the
\* normalized message.
C30_UntimedCountedIfMessage ==
    [][ UntimedStep =>
          LET counted(p, m) ==
                  p <= 4 /\ m # << >> => Incremented(error_messages, error_messages', m)
          IN  /\ time_series' = time_series
              /\ message_trends' = message_trends
              /\ CountedOnce
              /\ counted(priority_num(call'.entry[1]), normalize(msg(call'.entry[1]))) ]_vars

\* C30 witness: after an entry with a timestamp, an error entry with none
\* was processed and its message counted
C30_Witness ==
    /\ call.op = "process_entry"
    /\ minute_bucket(call.entry[1]) = None
    /\ priority_num(call.entry[1]) = 3
    /\ Get(error_messages, normalize(msg(call.entry[1]))) = 1
    /\ total_entries = 2
    /\ Cardinality(DOMAIN time_series) = 1
    /\ Get(untimed, normalize(msg(call.entry[1]))) = 1

----------------------------------------------------------------------------
(* Claims about the command-line filter (checked under SpecFilter) *)

\* the criteria the specification calls the default: every service, ceiling
\* 7, no pattern
DefaultCriteria == [unit |-> None, max_priority |-> 7, pattern |-> None]

\* C5: the default criteria admit every parsed entry, whatever its priority
\* field, service and message.
C5_DefaultAdmitsEveryEntry ==
    (cli_filter = Some(DefaultCriteria) /\ checked # None) => checked[1].verdict

\* C6: with the priority and pattern checks passed, an entry is admitted
\* exactly when no unit is asked for or the entry's service equals the unit
\* asked for, letter for letter and as a whole.
C6_ServiceCheckIsExact ==
    (cli_filter # None /\ checked # None) =>
        LET f == cli_filter[1]
            e == checked[1].entry
        IN  (~PriorityRejects(f, e) /\ ~PatternRejects(f, e)) =>
                (checked[1].verdict <=> (f.unit = None \/ service(e) = f.unit[1]))

\* C7: an entry whose priority is above max_priority is rejected whatever
\* its service and message; an entry whose priority is at most max_priority
\* is admitted whenever the service and pattern checks pass.
C7_PriorityCeiling ==
    (cli_filter # None /\ checked # None) =>
        LET f == cli_filter[1]
            e == checked[1].entry
        IN  /\ priority_num(e) > f.max_priority => ~checked[1].verdict
            /\ (priority_num(e) <= f.max_priority /\ ~ServiceRejects(f, e)
                    /\ ~PatternRejects(f, e)) => checked[1].verdict

\* C7 witness: an entry at the ceiling was admitted by criteria whose unit
\* and pattern it satisfies
C7_Witness ==
    /\ cli_filter # None /\ checked # None
    /\ cli_filter[1].max_priority = 3
    /\ cli_filter[1].unit # None /\ cli_filter[1].pattern # None
    /\ priority_num(checked[1].entry) = 3
    /\ checked[1].verdict

----------------------------------------------------------------------------
(* Claims about the viewer's filter (checked under SpecFilterBar) *)

\* the entry at (1-based) position i is among the filtered indices
Shown(i) == \E j \in 1..Len(filtered_indices) : filtered_indices[j] = i - 1

\* C8: in mode And with both patterns configured, no entry is admitted that
\* one of the two patterns does not match, even if the other one matches.
C8_AndNeedsBothPatterns ==
    (changed /\ filter.combine_mode = "And" /\ filter.pattern # None
        /\ filter.pattern2 # None) =>
        \A i \in 1..Len(log_store.entries) :
            (\/ ~is_match(filter.pattern[1], log_store.entries[i].message)
             \/ ~is_match(filter.pattern2[1], log_store.entries[i].message))
                => ~Shown(i)

\* C8 witness: in mode And with two patterns an entry matched by both is
\* shown, and one matched by the first pattern alone is not
C8_Witness ==
    /\ changed /\ filter.combine_mode = "And"
    /\ filter.pattern # None /\ filter.pattern2 # None
    /\ \E i \in 1..Len(log_store.entries) : Shown(i)
    /\ \E i \in 1..Len(log_store.entries) :
           /\ is_match(filter.pattern[1], log_store.entries[i].message)
           /\ ~is_match(filter.pattern2[1], log_store.entries[i].message)
           /\ log_store.entries[i].priority <= filter.max_priority
           /\ ~Shown(i)

\* the priority and service checks of the viewer's filter
PassesPriorityAndService(f, e) ==
    e.priority <= f.max_priority /\ (f.units = {} \/ e.service \in f.units)

\* C9: with neither pattern configured the entries admitted are, in every
\* combine mode, exactly those that pass the priority and service checks.
C9_NoPatternAlwaysPasses ==
    (changed /\ filter.pattern = None /\ filter.pattern2 = None) =>
        \A i \in 1..Len(log_store.entries) :
            Shown(i) <=> PassesPriorityAndService(filter, log_store.entries[i])

\* C9 witness: mode Or, no pattern, one service selected: some entries are
\* shown and some are not
C9_Witness ==
    /\ changed /\ filter.combine_mode = "Or"
    /\ filter.pattern = None /\ filter.pattern2 = None
    /\ filter.units = {Sshd}
    /\ filtered_indices # << >>

\* a step in which an invalid pattern is handed to the filter's configuration
RejectedUpdate ==
    \/ \E t \in BarTexts : ~ValidRegex(t) /\ TypePattern(t)
    \/ \E t \in BarTexts2 : ~ValidRegex(t) /\ TypePattern2(t)
    \/ /\ ApplyToFilter
       /\ ~ValidRegex(filter_bar.pattern_text) \/ ~ValidRegex(filter_bar.pattern2_text)

\* C10: after a rejected update the filter admits exactly the entries it
\* admitted before it.
C10_RejectedUpdateKeepsFilter ==
    [][ RejectedUpdate => apply_filter(filter') = apply_filter(filter) ]_vars

----------------------------------------------------------------------------
(* Claims about priority inference (checked under SpecInfer) *)

\* the tiers one of whose keywords the lower-cased message contains
TiersHit(m) ==
    { t \in DOMAIN PriorityKeywords :
        \E k \in PriorityKeywords[t] : contains(to_lowercase(m), k) }

\* C13: infer_priority returns the numerically lowest tier among 2, 3, 4, 5
\* one of whose keywords the message contains in any letter case, and 6 when
\* it contains none.
C13_FirstTierWins ==
    call.op = "infer_priority" =>
        LET hit == TiersHit(call.entry[1])
        IN  IF hit = {} THEN ret = 6
            ELSE ret \in hit /\ \A t \in hit : ret <= t

\* C13 witness: a message with an error and a warning keyword was given 3
C13_Witness ==
    /\ call.op = "infer_priority"
    /\ call.entry[1] = << "w", "a", "r", "n", "i", "n", "g" >> \o << " " >> \o << "E", "R", "R", "O", "R" >>
    /\ ret = 3

----------------------------------------------------------------------------
(* Claims about normalize (checked under SpecNormalize) *)

\* C19: normalizing a normalized message changes nothing:
\* normalize(normalize(x)) = normalize(x) for every message x.
C19_NormalizeIdempotent ==
    call.op = "normalize" => normalize(ret) = ret

----------------------------------------------------------------------------
(* Claims about get_patterns after a whole run (checked under SpecPatterns) *)

\* C14: get_patterns returns at most 10 signals, every Critical one before
\* every Warning one before every Info one and, within a severity, counts
\* never increasing; and the list is the first 10 of all the signals raised
\* under that order: none left out belongs strictly before one returned.
C14_TopTenInOrder ==
    call.op = "get_patterns" =>
        /\ Len(ret) <= 10
        /\ \A i, j \in 1..Len(ret) :
             i < j =>
               /\ ~(ret[i].severity = "Warning" /\ ret[j].severity = "Critical")
               /\ ~(ret[i].severity = "Info" /\ ret[j].severity \in {"Critical", "Warning"})
               /\ (ret[i].severity = ret[j].severity => ret[i].count >= ret[j].count)
        /\ \E order \in Perms(DOMAIN error_messages) :
             LET all == Candidates(order)
                 occurs(s, v) == Cardinality({ k \in 1..Len(s) : s[k] = v })
                 rank(v) == IF v.severity = "Critical" THEN 0
                            ELSE IF v.severity = "Warning" THEN 1 ELSE 2
                 before(a, b) ==
                     rank(a) < rank(b) \/ (rank(a) = rank(b) /\ a.count > b.count)
             IN  /\ Len(ret) = IF Len(all) < 10 THEN Len(all) ELSE 10
                 /\ \A v \in Range(ret) : occurs(ret, v) <= occurs(all, v)
                 /\ \A v \in Range(all) :
                      occurs(ret, v) < occurs(all, v) =>
                        \A k \in 1..Len(ret) : ~before(v, ret[k])

\* more than 10 signals were raised, of differing counts, and 10 came back
C14_Witness ==
    /\ call.op = "get_patterns"
    /\ Len(ret) = 10
    /\ \E order \in Perms(DOMAIN error_messages) : Len(Candidates(order)) > 10
    /\ \E i, j \in 1..Len(ret) : ret[i].count > ret[j].count

\* a Critical signal that was raised last came back first
C14_WitnessSeverity ==
    /\ call.op = "get_patterns"
    /\ Len(ret) >= 2
    /\ ret[1].severity = "Critical" /\ ret[1].pattern_type = "HighVolume"
    /\ ret[2].severity = "Warning"

\* the entries of the run that normalize to m and lie in minute k
BatchInMinute(m, k) ==
    Cardinality({ i \in 1..Len(batch) :
                    /\ normalize(msg(batch[i])) = m
                    /\ timestamp_secs(batch[i]) # None
                    /\ timestamp_secs(batch[i])[1] \div 60 = k })

BatchMinutes == 1..6

\* the entries of the run that normalize to m
BatchTotal(m) == Cardinality({ i \in 1..Len(batch) : normalize(msg(batch[i])) = m })

\* the minute buckets of the whole run
BatchBuckets ==
    Cardinality({ k \in BatchMinutes :
                    \E i \in 1..Len(batch) :
                        /\ timestamp_secs(batch[i]) # None
                        /\ timestamp_secs(batch[i])[1] \div 60 = k })

\* the signals of one type that get_patterns returned for m
Returned(type, m) ==
    Cardinality({ i \in 1..Len(ret) : ret[i].pattern_type = type /\ ret[i].message = m })

\* C15 as stated: when 3 or more timestamped entries normalize to X and one
\* minute bucket holds at least 3 times X's average per bucket of the series,
\* with that peak at least 3, get_patterns returns exactly one Spike for X.
C15_SpikeAtThreeTimesAverage ==
    call.op = "get_patterns" =>
        \A m \in {X, Y} :
            ( /\ BatchTotal(m) >= 3
              /\ \E k \in BatchMinutes :
                    /\ BatchInMinute(m, k) * BatchBuckets >= 3 * BatchTotal(m)
                    /\ BatchInMinute(m, k) >= 3 )
            => Returned("Spike", m) = 1

\* C15 amended: when 3 or more timestamped entries normalize to X and fewer
\* than 10 signals come back, get_patterns returns exactly one Spike for X if
\* X lies in two or more minute buckets and one of them holds more than 3
\* times X's average per bucket of the series, with that peak at least 3;
\* and no Spike for X otherwise.
C15_SpikeAboveThreeTimesAverage ==
    (call.op = "get_patterns" /\ Len(ret) < 10) =>
        \A m \in {X, Y} :
            BatchTotal(m) >= 3 =>
                Returned("Spike", m) =
                    IF /\ Cardinality({ k \in BatchMinutes : BatchInMinute(m, k) > 0 }) >= 2
                       /\ \E k \in BatchMinutes :
                             /\ BatchInMinute(m, k) * BatchBuckets > 3 * BatchTotal(m)
                             /\ BatchInMinute(m, k) >= 3
                    THEN 1 ELSE 0

\* a Spike for x came back from a run whose peak is above 3 times the average
C15_Witness ==
    /\ call.op = "get_patterns" /\ Len(ret) < 10
    /\ BatchTotal(X) >= 3
    /\ \E k \in BatchMinutes : BatchInMinute(X, k) * BatchBuckets > 3 * BatchTotal(X)
    /\ Returned("Spike", X) = 1

\* the entries of the run with a priority of at most maxp
BatchErrors(maxp) ==
    Cardinality({ i \in 1..Len(batch) : priority_num(batch[i]) <= maxp })

TwoEvenMinutes == ShapeEntries(X, << 6, 6, 0, 0 >>)

\* what that run leaves in the AnalysisState
TwoEvenMinutesCounted ==
    /\ entries_by_priority[3] = 12
    /\ DOMAIN error_messages = {X} /\ error_messages[X] = 12
    /\ Cardinality(DOMAIN time_series) = 2
    /\ \A k \in DOMAIN time_series : time_series[k].errors = 6

\* C17 as stated: after that run the state has entries_by_priority[3] = 12,
\* one normalized message with count 12 and two time buckets with errors = 6
\* each, and get_patterns returns a Recurring signal and no Spike signal for
\* the message.
C17_TwoMinutesRecurring ==
    (batch = TwoEvenMinutes /\ call.op = "get_patterns") =>
        /\ TwoEvenMinutesCounted
        /\ Returned("Recurring", X) >= 1
        /\ Returned("Spike", X) = 0

\* C17 amended: after that run the state has the same counts, and
\* get_patterns returns neither a Recurring nor a Spike signal for the
\* message: it returns one signal, HighVolume, Critical, with count 12.
C17_TwoMinutesHighVolume ==
    (batch = TwoEvenMinutes /\ call.op = "get_patterns") =>
        /\ TwoEvenMinutesCounted
        /\ Returned("Recurring", X) = 0
        /\ Returned("Spike", X) = 0
        /\ Len(ret) = 1
        /\ ret[1].pattern_type = "HighVolume" /\ ret[1].message = X
        /\ ret[1].severity = "Critical" /\ ret[1].count = 12

\* get_patterns has answered after the run of C17
C17_Witness ==
    /\ batch = TwoEvenMinutes /\ call.op = "get_patterns"
    /\ total_entries = 12 /\ Len(ret) = 1

----------------------------------------------------------------------------
(* Claims about the readers and the viewer's poll (checked under SpecReader) *)

\* C20: at every moment the entries the viewer has stored are a prefix of the
\* Entry messages the current producer has sent, and so their line numbers
\* are strictly increasing.
C20_StoredIsPrefixOfSent ==
    LET stored == log_store.entries
    IN  /\ Len(stored) <= Len(sent)
        /\ stored = SubSeq(sent, 1, Len(stored))
        /\ \A i, j \in 1..Len(stored) : i < j => stored[i].line_num < stored[j].line_num

\* C20 witness: the viewer has drained one entry and stored it while the
\* second one the producer sent is still in the channel
C20_Witness ==
    /\ Len(log_store.entries) = 1
    /\ Len(sent) = 2
    /\ EntriesOf(chan, 1) = << sent[2] >>

\* C20 witness: two drains, one entry each, stored in the order sent
C20_WitnessStored ==
    /\ Len(log_store.entries) = 2
    /\ chan # << >>
    /\ reader # None /\ reader[1].done

\* the reader takes a line in this step
LineTaken ==
    /\ reader # None /\ reader' # None
    /\ reader'[1].run = reader[1].run
    /\ reader'[1].lines_read = reader[1].lines_read + 1

\* the line has the syslog text form or is a journal object
MatchesLogForm(l) ==
    \/ SyslogEntry(l) # None
    \/ StartsWithBrace(l) /\ JournalEntry_from_json(l) # None

\* the step counted one entry and no parse error
CountedEntry ==
    /\ reader'[1].entries_sent = reader[1].entries_sent + 1
    /\ reader'[1].parse_errors = reader[1].parse_errors
    /\ reader[1].kind # "cli" => Len(sent') = Len(sent) + 1

\* the step counted one parse error, made no entry and did not end the stream
CountedError ==
    /\ reader'[1].parse_errors = reader[1].parse_errors + 1
    /\ reader'[1].entries_sent = reader[1].entries_sent
    /\ reader[1].kind # "cli" => sent' = sent
    /\ ~reader'[1].done

\* C11 as stated: a line that is not blank and has neither the syslog text
\* form nor the journal JSON form counts one parse error, makes no entry and
\* leaves the stream running; a line of one of the two forms makes one entry
\* and leaves the error counter alone.
C11_NeitherFormIsError ==
    [][ LineTaken =>
          LET l == lines[reader[1].pos + 1]
          IN  IF IsBlank(l) THEN TRUE
              ELSE IF MatchesLogForm(l) THEN CountedEntry
              ELSE CountedError ]_vars

\* C11 amended: a line that is not blank and has neither the syslog text form
\* nor the journal JSON form nor, in the file reader, a form of the saved
\* file counts one parse error, makes no entry and leaves the stream
\* running; every other line that is not blank makes one entry and leaves
\* the error counter alone; and at every moment the lines read are the
\* entries plus the parse errors plus, in the ssh reader and the command-line
\* run, the blank lines.
C11_UnreadableLineIsError ==
    /\ [][ LineTaken =>
             LET l == lines[reader[1].pos + 1]
                 saved_form == /\ reader[1].kind = "file"
                               /\ parse_saved_line(l, reader[1].lines_read + 1) # None
             IN  IF IsBlank(l) THEN TRUE
                 ELSE IF MatchesLogForm(l) \/ saved_form THEN CountedEntry
                 ELSE CountedError ]_vars
    /\ [](reader # None =>
            LET r == reader[1]
                blanks == IF r.kind = "file" THEN 0
                          ELSE Cardinality({ i \in 1..r.lines_read : IsBlank(lines[i]) })
            IN  r.lines_read = r.entries_sent + r.parse_errors + blanks)

\* C11 witness: the file reader has read a line of the saved plain-text form
\* and made an entry of it, then a line of no form and counted the error
C11_Witness ==
    /\ reader # None /\ reader[1].kind = "file" /\ reader[1].run = 1
    /\ Len(lines) = 2 /\ lines[1] = SavedTextLine /\ lines[2] = TextLine(<< "o", "o", "p", "s" >>)
    /\ reader[1].lines_read = 2
    /\ reader[1].entries_sent = 1 /\ reader[1].parse_errors = 1
    /\ Len(sent) = 1

\* C12: every entry a reader has made, from a syslog line, a journal object,
\* a saved JSON record or a saved plain-text record, has a priority between
\* 0 and 7.
C12_PriorityInRange ==
    \A i \in 1..Len(sent) : sent[i].priority \in 0..(NumPriorities - 1)

\* the file reader has finished the file that save_now wrote in the run before
RereadSaved ==
    /\ reader # None /\ saved # None
    /\ reader[1].kind = "file" /\ reader[1].done
    /\ reader[1].run = saved[1].run + 1
    /\ lines = save_logs(saved[1].entries, saved[1].format)

\* C18: the entries save_logs wrote, in either format, come back from the
\* file reader as as many Entry messages, in order, each with the priority,
\* service and message of the entry written.
C18_SavedFileReadsBack ==
    RereadSaved =>
        /\ Len(sent) = Len(saved[1].entries)
        /\ \A i \in 1..Len(sent) :
             /\ sent[i].priority = saved[1].entries[i].priority
             /\ sent[i].service = saved[1].entries[i].service
             /\ sent[i].message = saved[1].entries[i].message

----------------------------------------------------------------------------
(* Claims about cancellation, errors and the poll (checked under           *)
(* SpecProducer, SpecProducerFair and SpecPoll)                            *)

\* a step of the current reader's thread after it has seen a command
AfterCommand ==
    /\ reader # None /\ reader' # None
    /\ reader[1].observed
    /\ reader'[1].run = reader[1].run

\* a step of a thread whose receiver is gone
OrphanMoves == Len(orphans') = Len(orphans) /\ orphans' # orphans

\* C21 as stated: once a reader has seen Cancel or Disconnect on its command
\* channel it puts no further message of any kind on the message channel.
C21_NothingAfterCommand ==
    [][ AfterCommand => put' = put ]_vars

\* C21 amended: once a reader has seen Cancel or Disconnect it puts no
\* Entry, Progress, Completed or Error on the message channel; the one
\* message it may still put is the SshDisconnected with which its thread
\* ends, and a thread whose receiver is gone (every thread that is sent
\* Cancel) puts nothing at all.
C21_OnlyHangupAfterCommand ==
    /\ [][ AfterCommand =>
             \/ put' = put
             \/ /\ put' = Append(put, "SshDisconnected")
                /\ chan' = Append(chan, SshDisconnectedMsg)
                /\ reader'[1].done ]_vars
    /\ [][ OrphanMoves => chan' = chan /\ put' = put ]_vars

\* C21 witness: the ssh reader was sent Disconnect, saw it at the next line,
\* and ended with SshDisconnected as its last message
C21_Witness ==
    /\ reader # None /\ reader[1].kind = "ssh"
    /\ reader[1].observed /\ reader[1].done
    /\ put # << >> /\ put[Len(put)] = "SshDisconnected"
    /\ status_message = "Disconnected"

\* C21 witness: a thread that was sent Cancel has seen it and ended
C21_WitnessCancel ==
    \E i \in 1..Len(orphans) :
        /\ orphans[i].locals.kind = "ssh"
        /\ orphans[i].locals.observed /\ orphans[i].locals.done

\* C22: after JlogApp has cancelled a run, by reset_state or by disconnect,
\* the thread of its reader takes at most one more line from the source.
C22_StopsWithinOneLine ==
    /\ reader # None => reader[1].since <= 1
    /\ \A i \in 1..Len(orphans) : orphans[i].locals.since <= 1

\* a poll in which try_recv reports the channel disconnected
SeesDisconnected == bg_receiver /\ ~bg_receiver'

\* the line count of the last Progress or Completed among ms, or else t
RECURSIVE LastTotal(_, _, _)
LastTotal(ms, i, t) ==
    IF i > Len(ms) THEN t
    ELSE LastTotal(ms, i + 1,
                   IF ms[i].type = "Progress" THEN ms[i].lines
                   ELSE IF ms[i].type = "Completed" THEN ms[i].total_lines
                   ELSE t)

\* C23: a poll in which try_recv reports the channel disconnected leaves
\* JlogApp as a Completed message with the last known totals would: not
\* loading, the line count that was last reported, and the status line of a
\* completed load.
C23_DisconnectedAsCompleted ==
    [][ SeesDisconnected =>
          /\ ~is_loading'
          /\ total_lines' = LastTotal(chan, 1, total_lines)
          /\ status_message' = "Loaded" ]_vars

\* C24: among the messages a reader puts on the channel in one run there is
\* at most one Error, and no Entry, Progress or Completed comes after it.
C24_ErrorEndsTheRun ==
    \A i \in 1..Len(put) :
        put[i] = "Error" =>
            \A j \in (i + 1)..Len(put) :
                put[j] \notin { "Error", "Entry", "Progress", "Completed" }

\* a poll that takes messages from the channel
PollTakes == reader' = reader /\ Len(chan') < Len(chan)

\* the messages a poll takes
PollTaken == SubSeq(chan, 1, Len(chan) - Len(chan'))

\* C25: a poll that takes an Error message leaves every stored entry where
\* it was and stores the entries that came with it in the same poll; if none
\* came, the stored entries, the set of services and the filtered indices
\* are exactly as before.
C25_ErrorKeepsEntries ==
    [][ (PollTakes /\ \E i \in 1..Len(PollTaken) : PollTaken[i].type = "Error") =>
          LET new == EntriesOf(PollTaken, 1)
          IN  /\ log_store'.entries = log_store.entries \o new
              /\ log_store'.services =
                     log_store.services \cup { new[i].service : i \in 1..Len(new) }
              /\ new = << >> => /\ log_store' = log_store
                                /\ filtered_indices' = filtered_indices
              /\ \A i \in 1..Len(PollTaken), auto_save \in BOOLEAN, format \in SaveFormats :
                     PollTaken[i].type = "Error" =>
                         LET before == apply_all(AppState, SubSeq(PollTaken, 1, i - 1), 1,
                                                 auto_save, format, reader[1].run)
                             after == apply_message(before, PollTaken[i],
                                                    auto_save, format, reader[1].run)
                         IN  /\ after.log_store = before.log_store
                             /\ after.new_entries = before.new_entries
                             /\ after.saved = before.saved ]_vars

\* C25 witness: the polls have taken an entry and the Error that followed
\* it, and the entry is still stored and shown
C25_Witness ==
    /\ "Error" \in { put[i] : i \in 1..Len(put) }
    /\ chan = << >>
    /\ call.op = "process_messages"
    /\ Len(log_store.entries) = 1
    /\ filtered_indices = << 0 >>

\* the current reader is the thread of a file reader that has opened its file
FileRun(run) ==
    /\ reader # None
    /\ reader[1].kind = "file" /\ reader[1].run = run /\ reader[1].open

PutCount(type) == Cardinality({ i \in 1..Len(put) : put[i] = type })

C27_PollIsBounded ==
    [][ PollTakes =>
          LET cap == call'.n
              k == Len(chan) - Len(chan')
          IN  /\ call'.op = "process_messages"
              /\ cap \in PollCaps
              /\ k <= cap
              /\ k = cap \/ k = Len(chan)
              /\ chan' = SubSeq(chan, k + 1, Len(chan))
              /\ log_store'.entries = log_store.entries \o EntriesOf(SubSeq(chan, 1, k), 1)
              /\ ~bg_receiver' => chan' = << >> ]_vars

\* C27 witness: a poll of two rounds met three messages, stored the two
\* entries and left Completed in the channel
C27_Witness ==
    /\ call.op = "process_messages" /\ call.n = 2
    /\ Len(log_store.entries) = 2
    /\ Len(chan) = 1 /\ chan[1].type = "Completed"
    /\ is_loading

----------------------------------------------------------------------------
(* Claims about the sums of the statistics (checked under Spec) *)

\* the sum of the eight priority slots
SlotSum == SumValues(entries_by_priority)

\* C31: a process_entry call for an entry whose priority is above 7 changes
\* no slot of entries_by_priority and adds 1 to total_entries; the entries
\* that the slots do not count (total_entries less the sum of the slots)
\* grow by exactly 1 with each such call and by 0 with any other call, so the
\* sum of the slots is at most total_entries, and equal to it exactly when no
\* entry with a priority above 7 was processed.
C31_OutOfRangeIgnored ==
    /\ [][ ProcessStep =>
             LET p == priority_num(call'.entry[1])
                 uncounted == total_entries - SlotSum
             IN  /\ DOMAIN entries_by_priority' = PrioritySlots
                 /\ total_entries' = total_entries + 1
                 /\ p \notin PrioritySlots => entries_by_priority' = entries_by_priority
                 /\ (total_entries' - SlotSum') =
                        uncounted + (IF p \in PrioritySlots THEN 0 ELSE 1) ]_vars
    /\ [](SlotSum <= total_entries)

\* C31 witness: of two entries processed the last had priority 9, and the
\* slots count one entry
C31_Witness ==
    /\ call.op = "process_entry"
    /\ priority_num(call.entry[1]) = 9
    /\ total_entries = 2
    /\ SlotSum = 1

\* C36: every key of message_trends is a key of error_messages, every
\* bucket key of a message's trend is a key of time_series, and so a message
\* is active in no more buckets than the series has.
C36_TrendKeysAreKnown ==
    \A m \in DOMAIN message_trends :
        /\ m \in DOMAIN error_messages
        /\ DOMAIN message_trends[m] \subseteq DOMAIN time_series
        /\ Cardinality(DOMAIN message_trends[m]) <= Cardinality(DOMAIN time_series)

\* C36 witness: the series has two buckets and a message is active in one of them
C36_Witness ==
    /\ Cardinality(DOMAIN time_series) = 2
    /\ \E m \in DOMAIN message_trends : Cardinality(DOMAIN message_trends[m]) = 1

\* the sum of the buckets' totals
BucketTotals ==
    LET totals == [k \in DOMAIN time_series |-> time_series[k].total]
    IN  SumValues(totals)

\* C37: the counts of entries_by_service sum to total_entries; the totals of
\* the time buckets grow by 1 with each entry that has a bucket key and by 0
\* with each entry that has none, so their sum is the number of processed
\* entries with a timestamp, and at most total_entries.
C37_ServiceAndBucketSums ==
    /\ [](SumValues(entries_by_service) = total_entries)
    /\ [](BucketTotals <= total_entries)
    /\ [][ ProcessStep =>
             BucketTotals' = BucketTotals +
                 (IF minute_bucket(call'.entry[1]) = None THEN 0 ELSE 1) ]_vars

\* C37 witness: two entries of one service, one of them without a timestamp
C37_Witness ==
    /\ total_entries = 2
    /\ BucketTotals = 1
    /\ \E s \in DOMAIN entries_by_service : entries_by_service[s] = 2

----------------------------------------------------------------------------
(* Claims about the rules of get_patterns (checked under SpecPatterns) *)

\* the buckets in which message m is active
ActiveBuckets(m) ==
    IF m \in DOMAIN message_trends THEN DOMAIN message_trends[m] ELSE {}

\* the buckets of the whole series
SeriesBuckets == Cardinality(DOMAIN time_series)

\* the count of m's busiest bucket
Peak(m) ==
    LET counts == { message_trends[m][k] : k \in ActiveBuckets(m) }
    IN  IF counts = {} THEN 0 ELSE CHOOSE c \in counts : \A d \in counts : d <= c

\* the signals of one type for m among the candidates all
RaisedIn(all, type, m) ==
    { i \in 1..Len(all) :
        all[i].pattern_type = type /\ all[i].message = truncate_msg(m, MaxDisplayLen) }

\* the iteration orders of error_messages
Orders == Perms(DOMAIN error_messages)

\* C32: before truncation get_patterns has one Spike signal for a message if
\* the message is active in at least 2 buckets, its busiest bucket holds more
\* than 3 times (message count / buckets of the series) and at least 3, and
\* no Spike signal for it otherwise; the signal is Critical if the peak is at
\* least 50 and Warning otherwise, and it carries the message count.
C32_SpikeRule ==
    call.op = "get_patterns" =>
        \A order \in Orders :
            LET all == Candidates(order)
            IN  \A m \in DOMAIN error_messages :
                    LET spike == /\ Cardinality(ActiveBuckets(m)) >= 2
                                 /\ Peak(m) * SeriesBuckets > 3 * error_messages[m]
                                 /\ Peak(m) >= 3
                        raised == RaisedIn(all, "Spike", m)
                    IN  /\ Cardinality(raised) = IF spike THEN 1 ELSE 0
                        /\ \A i \in raised :
                              /\ all[i].severity =
                                     IF Peak(m) >= 50 THEN "Critical" ELSE "Warning"
                              /\ all[i].count = error_messages[m]
                        /\ Len(ret) < TopPatterns =>
                              Returned("Spike", m) = Cardinality(raised)

\* C32 witness: a Critical spike with a peak of 50 came back
C32_Witness ==
    /\ call.op = "get_patterns"
    /\ Peak(X) = 50
    /\ \E i \in 1..Len(ret) :
          /\ ret[i].pattern_type = "Spike" /\ ret[i].message = X
          /\ ret[i].severity = "Critical"

\* C32 witness: a peak of 49 came back as a Warning spike
C32_WitnessWarning ==
    /\ call.op = "get_patterns"
    /\ Peak(X) = 49
    /\ \E i \in 1..Len(ret) :
          /\ ret[i].pattern_type = "Spike" /\ ret[i].message = X
          /\ ret[i].severity = "Warning"

\* the place of bucket k among m's active buckets in ascending order of key
Rank(m, k) == Cardinality({ j \in ActiveBuckets(m) : LexLess(j, k) })

\* the counts of m's active buckets from place `from` up to place `to`
HalfSum(m, from, to) ==
    SumOver(message_trends[m],
            { k \in ActiveBuckets(m) : from <= Rank(m, k) /\ Rank(m, k) < to })

\* C33: before truncation get_patterns has one Increasing signal for a
\* message if it has at least 4 active buckets and, of these in ascending
\* order of key, those from place floor(n/2) on sum to more than twice the
\* sum of those before and to at least 5; and no Increasing signal for it
\* otherwise.
C33_IncreasingRule ==
    call.op = "get_patterns" =>
        \A order \in Orders :
            LET all == Candidates(order)
            IN  \A m \in DOMAIN error_messages :
                    LET n == Cardinality(ActiveBuckets(m))
                        first_half == HalfSum(m, 0, n \div 2)
                        second_half == HalfSum(m, n \div 2, n)
                        rising == /\ n >= 4
                                  /\ second_half > 2 * first_half
                                  /\ second_half >= 5
                    IN  /\ Cardinality(RaisedIn(all, "Increasing", m)) =
                               IF rising THEN 1 ELSE 0
                        /\ Len(ret) < TopPatterns =>
                               Returned("Increasing", m) = IF rising THEN 1 ELSE 0

\* C33 witness: x has five active buckets with counts 1, 1, 3, 1, 1; the
\* middle one counts for the second half, and Increasing came back
C33_Witness ==
    /\ call.op = "get_patterns"
    /\ Cardinality(ActiveBuckets(X)) = 5
    /\ HalfSum(X, 0, 2) = 2 /\ HalfSum(X, 2, 5) = 5
    /\ Returned("Increasing", X) = 1

\* C34: whatever the trends, and also when no entry had a timestamp, a
\* message with a count of at least 5 and more than 25% of the summed
\* error_messages counts, for which no signal of another type was raised, has
\* a HighVolume signal before truncation: Critical above 50%, Warning
\* otherwise.
C34_HighVolumeWithoutTrends ==
    call.op = "get_patterns" =>
        \A order \in Orders :
            LET all == Candidates(order)
                total_errors == SumValues(error_messages)
            IN  \A m \in DOMAIN error_messages :
                    ( /\ error_messages[m] >= 5
                      /\ 4 * error_messages[m] > total_errors
                      /\ \A i \in 1..Len(all) :
                            all[i].message = truncate_msg(m, MaxDisplayLen)
                            => all[i].pattern_type = "HighVolume" )
                    => \E i \in RaisedIn(all, "HighVolume", m) :
                          all[i].severity =
                              IF 2 * error_messages[m] > total_errors
                              THEN "Critical" ELSE "Warning"

\* C35: get_patterns never has both a Burst and a Recurring signal for one
\* message: a Burst signal needs the message active in fewer than 0.3 of the
\* series' buckets, a Recurring signal in more than 0.4 of them.
C35_BurstExcludesRecurring ==
    call.op = "get_patterns" =>
        \A order \in Orders :
            LET all == Candidates(order)
            IN  \A m \in DOMAIN error_messages :
                    LET burst == RaisedIn(all, "Burst", m) # {}
                        recurring == RaisedIn(all, "Recurring", m) # {}
                        active == Cardinality(ActiveBuckets(m))
                    IN  /\ ~(burst /\ recurring)
                        /\ burst => 10 * active < 3 * SeriesBuckets
                        /\ recurring => 10 * active > 4 * SeriesBuckets
                        /\ ~(Returned("Burst", m) > 0 /\ Returned("Recurring", m) > 0)

\* C35 witness: of two messages with 14 entries each, Burst came back for
\* the one and Recurring for the other
C35_Witness ==
    /\ call.op = "get_patterns"
    /\ \E m1, m2 \in DOMAIN error_messages :
          /\ Returned("Burst", m1) = 1 /\ Returned("Recurring", m1) = 0
          /\ Returned("Recurring", m2) = 1 /\ Returned("Burst", m2) = 0

----------------------------------------------------------------------------
(* Claims about the figures the readers report (checked under SpecProgress) *)

\* the places of the messages of one type among the first n of the channel
PlacesOf(type, n) == { j \in 1..n : chan[j].type = type }

C38_WitnessFile ==
    /\ reader[1].kind = "file" /\ reader[1].done
    /\ Cardinality(PlacesOf("Progress", Len(chan))) = 2
    /\ chan[Len(chan)] =
           [ type |-> "Completed", total_lines |-> 2 * FileProgressEvery, entries |-> 2 ]

----------------------------------------------------------------------------
(* Claims about the delivery of entries (checked under SpecPollFair and    *)
(* SpecProducer)                                                           *)

\* C39: with a viewer that keeps polling and starts no other load, the n-th
\* entry a reader has sent is in time the n-th entry of the store, also when
\* the reader had ended with the entry still in the channel; the store holds
\* the entries sent so far in their order, each once; and when a poll has
\* applied Completed, the store holds as many entries as Completed reports.
C39_NoEntryLost ==
    /\ \A n \in 1..MaxLines :
           (Len(sent) >= n) ~> (Len(log_store.entries) >= n /\ log_store.entries[n] = sent[n])
    /\ [](/\ Len(log_store.entries) <= Len(sent)
          /\ \A n \in 1..Len(log_store.entries) : log_store.entries[n] = sent[n])
    /\ [][ PollTakes =>
             \A i \in 1..Len(PollTaken) :
                 PollTaken[i].type = "Completed" =>
                     Len(log_store'.entries) = PollTaken[i].entries ]_vars

\* C39 witness: a reader's two entries, polled one message at a time up to
\* the poll that found the channel disconnected, are both in the store
C39_Witness ==
    /\ reader[1].done /\ ~bg_receiver
    /\ call.op = "process_messages" /\ call.n = 1
    /\ Len(sent) = 2
    /\ log_store.entries = sent

\* C39 witness: the reader has ended with both its entries and its Completed
\* still in the channel
C39_WitnessQueued ==
    /\ reader[1].done /\ bg_receiver
    /\ Len(sent) = 2 /\ log_store.entries = << >>
    /\ Cardinality(PlacesOf("Entry", Len(chan))) = 2

\* C40: load_file and start_ssh leave the store, the indices and the
\* channel empty, whatever the earlier reader had sent; from then on the
\* store holds entries the newest reader sent, in its order; the channel
\* holds the last messages the newest reader put there and nothing else; and
\* no step of an earlier reader's thread, wherever it comes between the steps
\* of the others, changes the channel or anything the viewer shows.
C40_NewestReaderOnly ==
    /\ [][ reader'[1].run # reader[1].run =>
             /\ log_store' = [entries |-> << >>, services |-> {}]
             /\ filtered_indices' = << >>
             /\ chan' = << >>
             /\ total_lines' = 0
             /\ ~is_connected' ]_vars
    /\ [](/\ Len(log_store.entries) <= Len(sent)
          /\ log_store.entries = SubSeq(sent, 1, Len(log_store.entries)))
    /\ [](/\ Len(chan) <= Len(put)
          /\ \A i \in 1..Len(chan) : chan[i].type = put[Len(put) - Len(chan) + i])
    /\ [][ OrphanMoves =>
             UNCHANGED << chan, log_store, filtered_indices, saved, appVars >> ]_vars

\* C40 witness: a second load was started while the first reader was running;
\* the first reader's thread has read on since, and the store holds the entry
\* of the second reader
C40_Witness ==
    /\ reader[1].run = 2
    /\ \E i \in 1..Len(orphans) : orphans[i].locals.since >= 1
    /\ Len(sent) = 1
    /\ log_store.entries = sent

====
